---- MODULE Spec2Model ----
(***************************************************************************)
(* Model of the NTP observability backend (bdtime-web).                    *)
(*                                                                         *)
(*   SpecStore   the history store and the flush transaction               *)
(*               (services/ntp_data_ingestion_service.py _process_batch,   *)
(*               models/ntp_models.py NTPClient)                           *)
(*   SpecIngest  the threads of the ingestion service: connection          *)
(*               handlers, the batch worker, start() and stop()            *)
(*   SpecWorker  the capture worker's request/response pairing             *)
(*               (ntp_worker.py SingleInterfaceNTPAnalyzer)                *)
(*                                                                         *)
(* Time is counted in whole seconds.                                       *)
(***************************************************************************)
EXTENDS Integers, Sequences, FiniteSets, TLC

VARIABLES
    \* ---- history store (SpecStore) ----
    table,          \* committed rows of ntp_clients, in id order
    stats,          \* NTPDataIngestionService.stats counters
    pending_batch,  \* the batch_data list being accumulated for the next flush
    ingested,       \* history: client_ip -> number of valid sessions committed
    lastFlush,      \* history: caller, outcome, size and skipped records of the last flush
    \* ---- ingestion service threads (SpecIngest) ----
    running,        \* self.running
    tcp_server,     \* "none", "serving" or "closed"
    data_queue,     \* self.data_queue: the items waiting, oldest first
    conn,           \* handler thread -> "none", "open" or "closed" connection
    next_item,      \* history: the number of the next decoded item
    start_pc,       \* position of the caller of start()
    worker_pc,      \* position of the NTPDataProcessor thread
    batch_data,     \* the worker's local batch_data
    last_batch_age, \* time.time() - last_batch_time, counted up to batch_interval
    current_age,    \* time.time() - current_time while a flush of the loop runs
    get_wait,       \* seconds the worker has waited in data_queue.get
    stop_pc,        \* position of the caller of stop()
    join_wait,      \* seconds stop() has waited in processing_thread.join
    remaining_data, \* the local list of _process_remaining_data
    flushed,        \* history: item -> number of _process_batch calls it was passed to
    accepted_at_stop, \* history: the items in the queue or the batch when stop() was called
    \* ---- capture worker (SpecWorker) ----
    packet_count,       \* self.packet_count: blocks read from the capture
    session_count,      \* self.session_count
    pending_requests,   \* self.pending_requests: key -> stored request, or no entry
    completed_sessions, \* self.completed_sessions
    unmatched_packets,  \* self.unmatched_packets
    capture_clock,      \* time.time() in the worker process
    classified,         \* history: number of blocks classified as request or response
    \* ---- history API (SpecHistory) ----
    hist_rows,          \* the committed rows of ntp_clients the queries run on
    hist_now,           \* datetime.utcnow(), in seconds
    hist_next_id,       \* the id the next inserted row gets
    hist_response,      \* the last HTTP response of the history blueprint
    \* ---- config codec (SpecCodec) ----
    codec_pc,           \* "idle", "generated", "parsed" or "judged"
    codec_interface,    \* the NetworkInterface handed to generate_network_config
    codec_text,         \* the text it returned
    codec_parsed,       \* what parse_network_file read from that text
    codec_route,        \* the last (destination, gateway) judged, with the verdict
    \* ---- network configuration (SpecNet) ----
    net_files,          \* the config directory: file name -> file
    net_listdir,        \* the names of the config directory in os.listdir order
    net_backups,        \* the backup directory: copies named by file name and second
    net_clock,          \* the wall clock, in seconds
    net_routes,         \* get_active_routes(): device -> active routes
    net_writes,         \* calls of write_config_file so far
    net_response,       \* the last HTTP response of the network blueprint
    \* ---- NTP monitoring process manager and health (SpecMonitor) ----
    pm_pid_files,       \* the PID directory: interface -> pid in ntp_<iface>.pid
    pm_log_files,       \* the interfaces that have an ntp_<iface>.log
    pm_alive,           \* the worker process ids that exist in the OS
    pm_next_pid,        \* the id the next spawned process gets
    pm_response,        \* the last HTTP response of the NTP monitor blueprint
    health_response,    \* the last response of GET /api/health
    \* ---- standalone UDP monitor (SpecUdp) ----
    udp_main,           \* main thread: the phase it is in and its step there
    udp_base,           \* the phase signal_handler interrupted
    udp_worker,         \* the step of the _database_worker thread
    udp_lock,           \* self.cache_lock: "free" or the thread that holds it
    udp_running,        \* self.running
    udp_signals,        \* history: termination signals delivered
    udp_received,       \* history: client_ip of each parsed request, in order
    udp_client_cache,   \* self.client_cache: client_ip -> request_count, 0 if absent
    udp_pending_records,\* self.pending_records: the numbers of the records waiting
    udp_local,          \* thread -> records_to_write and stats_to_write it holds
    udp_copied,         \* history: record -> the threads whose flush took it
    udp_handed,         \* history: record -> times passed to _write_to_database
    udp_db,             \* ntp_records (record -> rows) and client_stats
    udp_write_failed    \* history: some _write_to_database rolled back

storeVars == <<table, stats, pending_batch, ingested, lastFlush>>
ingestVars ==
    <<running, tcp_server, data_queue, conn, next_item, start_pc, worker_pc,
      batch_data, last_batch_age, current_age, get_wait, stop_pc, join_wait,
      remaining_data, flushed, accepted_at_stop>>
storeOnlyVars == <<table, pending_batch, ingested, lastFlush>>
workerVars ==
    <<packet_count, session_count, pending_requests, completed_sessions,
      unmatched_packets, capture_clock, classified>>
historyVars == <<hist_rows, hist_now, hist_next_id, hist_response>>
\* The variables of the HTTP-side models, which the models above leave alone.
codecVars == <<codec_pc, codec_interface, codec_text, codec_parsed, codec_route>>
netVars == <<net_files, net_listdir, net_backups, net_clock, net_routes, net_writes,
            net_response>>
monitorVars == <<pm_pid_files, pm_log_files, pm_alive, pm_next_pid, pm_response,
                health_response>>
udpVars == <<udp_main, udp_base, udp_worker, udp_lock, udp_running, udp_signals,
            udp_received, udp_client_cache, udp_pending_records, udp_local,
            udp_copied, udp_handed, udp_db, udp_write_failed>>
apiVars == <<historyVars, codecVars, netVars, monitorVars, udpVars>>
notHistoryVars == <<storeVars, ingestVars, workerVars, codecVars, netVars, monitorVars, udpVars>>
notCodecVars == <<storeVars, ingestVars, workerVars, historyVars, netVars, monitorVars, udpVars>>
notNetVars == <<storeVars, ingestVars, workerVars, historyVars, codecVars, monitorVars, udpVars>>
notMonitorVars == <<storeVars, ingestVars, workerVars, historyVars, codecVars, netVars, udpVars>>
notUdpVars == <<storeVars, ingestVars, workerVars, historyVars, codecVars, netVars, monitorVars>>
vars == <<storeVars, ingestVars, workerVars, apiVars>>

(***************************************************************************)
(* Bounds of the store model.                                              *)
(***************************************************************************)
MaxBatch == 2       \* longest batch handed to one flush
MaxSessions == 2    \* sessions taken from the queue in one behaviour
MaxRemaining == 1   \* items left in the queue when stop() drains it

(***************************************************************************)
(* Bounds and constants of the thread model.  The queue capacity, the      *)
(* batch size and the batch interval are configuration values (1000, 100   *)
(* and 5.0 s by default), taken small here.                                *)
(***************************************************************************)
MaxItems == 4           \* lines decoded to an item in one behaviour
QueueMaxsize == 2       \* queue.Queue(maxsize=...)
batch_size == 2         \* self.batch_size
batch_interval == 2     \* self.batch_interval, seconds
GetTimeout == 1         \* data_queue.get(timeout=1.0)
JoinTimeout == 10       \* processing_thread.join(timeout=10)

(***************************************************************************)
(* Bounds and constants of the capture worker model.                       *)
(***************************************************************************)
MaxClassified == 3      \* blocks classified as request or response
MaxBlocks == 10         \* blocks read from the capture
MaxCaptureClock == 3    \* last value of the worker's clock
pairing_timeout == 2    \* self.pairing_timeout, seconds
CleanupEvery == 10      \* cleanup when packet_count % 10 == 0
NtpPort == 123          \* the port in the patterns of parse_packet

Handlers == {"h1", "h2"}
Items == 1..MaxItems
LineKinds == {"json", "blank", "bad_json", "bad_utf8"}

(***************************************************************************)
(* Values.  String-valued keys use Absent/NoneVal, number-valued keys use  *)
(* the negative numbers AbsentNum/NoneNum/BadTs, which no real value takes.*)
(***************************************************************************)
Absent == "absent"          \* the key is not in the session dict (string keys)
NoneVal == "None"           \* Python None / SQL NULL (string columns)
AbsentNum == -1             \* the key is not in the session dict (number keys)
NoneNum == -2               \* Python None / SQL NULL (number columns)
BadTs == -3                 \* a session_timestamp that is not ISO-8601

IPs == {"10.0.0.1", "10.0.0.2"}
Ifaces == {"eth0", "eth1"}
Strata == {1, 2}
\* Timestamps carried by sessions, and the readings of datetime.utcnow() (a
\* wall clock) that replace a missing one: earlier and later than the sessions'.
SessionTimes == {1}
ClockValues == {0, 2}

\* A decoded session object; each key may be missing.
SessionDicts ==
    [is_dict : {TRUE},
     client_ip : IPs \cup {Absent},
     interface_name : Ifaces \cup {Absent},
     stratum : Strata \cup {AbsentNum},
     session_timestamp : SessionTimes \cup {AbsentNum, BadTs}]

\* A JSON value that is not an object (a number, a string, a list).
NotADict ==
    [is_dict |-> FALSE, client_ip |-> Absent, interface_name |-> Absent,
     stratum |-> AbsentNum, session_timestamp |-> AbsentNum]

\* What a connection handler can put on the queue: json.loads of a line.  The
\* sessions that lack a required key are taken with one value of the other keys.
CompleteSessions ==
    {sd \in SessionDicts : sd.client_ip # Absent /\ sd.interface_name # Absent}
IncompleteSessions ==
    {sd \in SessionDicts :
        /\ sd.client_ip = Absent \/ sd.interface_name = Absent
        /\ sd.stratum = 1
        /\ sd.session_timestamp = 1}
SessionItems == CompleteSessions \cup IncompleteSessions \cup {NotADict}

\* dict.get(key) of Python: None when the key is missing.
DictGet(sd, key) == IF sd[key] = Absent THEN NoneVal ELSE sd[key]
DictGetNum(sd, key) == IF sd[key] = AbsentNum THEN NoneNum ELSE sd[key]

\* dict.get(key, default)
DictGetDefault(sd, key, default) == IF sd[key] = Absent THEN default ELSE sd[key]
DictGetNumDefault(sd, key, default) == IF sd[key] = AbsentNum THEN default ELSE sd[key]

\* The timestamp parse shared by from_session_data and update_from_session_data:
\* a missing or unparsable session_timestamp is replaced by the current time.
ParseSessionTimestamp(sd, now) ==
    IF sd.session_timestamp = AbsentNum THEN now
    ELSE IF sd.session_timestamp = BadTs THEN now
    ELSE sd.session_timestamp

\* NTPClient.from_session_data: the row of a first session.
from_session_data(sd, now) ==
    [id |-> 0,
     client_ip |-> DictGetDefault(sd, "client_ip", ""),
     interface_name |-> DictGetDefault(sd, "interface_name", ""),
     stratum |-> DictGetNum(sd, "stratum"),
     session_timestamp |-> ParseSessionTimestamp(sd, now),
     first_seen_timestamp |-> ParseSessionTimestamp(sd, now),
     last_seen_timestamp |-> ParseSessionTimestamp(sd, now),
     session_count |-> 1]

\* NTPClient.update_from_session_data: protocol fields, timestamps and the
\* counter are assigned; client_ip, interface_name and first_seen are not.
update_from_session_data(row, sd, now) ==
    [row EXCEPT
        !.stratum = DictGetNumDefault(sd, "stratum", row.stratum),
        !.session_timestamp = ParseSessionTimestamp(sd, now),
        !.last_seen_timestamp = ParseSessionTimestamp(sd, now),
        !.session_count = row.session_count + 1]

(***************************************************************************)
(* _process_batch: one transaction over the batch.                         *)
(*                                                                         *)
(* The session is created with autoflush=False, so a query sees the        *)
(* committed rows (with the changes made to them in this transaction, as   *)
(* the identity map returns the same objects) but not the objects that     *)
(* session.add() has made pending.                                         *)
(***************************************************************************)
SetMin(S) == CHOOSE x \in S : \A y \in S : x <= y
SetMax(S) == CHOOSE x \in S : \A y \in S : x >= y

\* query(NTPClient).filter(client_ip == ip).first() has no ORDER BY: which of
\* several matching rows comes first depends on the index the engine scans.
Picks == {"lo", "hi"}
QueryFirst(rows, ip, pick) ==
    LET matches == {i \in 1..Len(rows) : rows[i].client_ip = ip}
    IN  IF matches = {} THEN 0
        ELSE IF pick = "lo" THEN SetMin(matches) ELSE SetMax(matches)

TxInit(rows) ==
    [rows |-> rows, new |-> <<>>, inserted |-> 0, updated |-> 0,
     processed |-> 0, errors |-> 0]

\* The body of the for loop of _process_batch for one item of the batch.
ProcessRecord(tx, sd, now, pick) ==
    IF ~sd.is_dict
    THEN \* session_data.get raises; caught per record
         [tx EXCEPT !.errors = tx.errors + 1]
    ELSE IF DictGet(sd, "client_ip") = NoneVal \/ DictGet(sd, "interface_name") = NoneVal
    THEN tx
    ELSE LET i == QueryFirst(tx.rows, sd.client_ip, pick)
         IN  IF i # 0
             THEN [tx EXCEPT
                      !.rows[i] = update_from_session_data(tx.rows[i], sd, now),
                      !.updated = tx.updated + 1,
                      !.processed = tx.processed + 1]
             ELSE [tx EXCEPT
                      !.new = Append(tx.new, from_session_data(sd, now)),
                      !.inserted = tx.inserted + 1,
                      !.processed = tx.processed + 1]

\* A faulty variant of ProcessRecords, kept to show that the property tells them apart: the first failing record ends the loop, so the
\* records after it are not processed.
RECURSIVE ProcessRecordsAbortOnError(_, _, _, _)
ProcessRecordsAbortOnError(tx, batch, now, pick) ==
    IF batch = <<>> THEN tx
    ELSE IF ~Head(batch).is_dict THEN [tx EXCEPT !.errors = tx.errors + 1]
    ELSE ProcessRecordsAbortOnError(ProcessRecord(tx, Head(batch), now, pick),
                                    Tail(batch), now, pick)

RECURSIVE ProcessRecords(_, _, _, _)
ProcessRecords(tx, batch, now, pick) ==
    IF batch = <<>> THEN tx
    ELSE ProcessRecords(ProcessRecord(tx, Head(batch), now, pick), Tail(batch), now, pick)

\* session.commit(): the pending objects are inserted after the existing rows
\* and get the next ids.
LastId(rows) == IF rows = <<>> THEN 0 ELSE rows[Len(rows)].id
Commit(tx) ==
    tx.rows \o [k \in 1..Len(tx.new) |-> [tx.new[k] EXCEPT !.id = LastId(tx.rows) + k]]

\* A session of the batch that the loop accepts (a dict with both keys).
IsValidSession(sd) ==
    /\ sd.is_dict
    /\ sd.client_ip # Absent
    /\ sd.interface_name # Absent

ValidCount(batch, ip) ==
    Cardinality({k \in 1..Len(batch) : IsValidSession(batch[k]) /\ batch[k].client_ip = ip})

StatsInit ==
    [total_received |-> 0, total_processed |-> 0, total_inserted |-> 0,
     total_updated |-> 0, processing_errors |-> 0]

InitIngest ==
    /\ running = FALSE
    /\ tcp_server = "none"
    /\ data_queue = <<>>
    /\ conn = [h \in Handlers |-> "none"]
    /\ next_item = 1
    /\ start_pc = "idle"
    /\ worker_pc = "unstarted"
    /\ batch_data = <<>>
    /\ last_batch_age = 0
    /\ current_age = 0
    /\ get_wait = 0
    /\ stop_pc = "idle"
    /\ join_wait = 0
    /\ remaining_data = <<>>
    /\ flushed = [i \in Items |-> 0]
    /\ accepted_at_stop = {}

InitStore ==
    /\ table = <<>>
    /\ stats = StatsInit
    /\ pending_batch = <<>>
    /\ ingested = [ip \in IPs |-> 0]
    /\ lastFlush = [caller |-> "none", outcome |-> "none", size |-> 0, skipped |-> 0]

(***************************************************************************)
(* The capture worker: SingleInterfaceNTPAnalyzer.                         *)
(***************************************************************************)
ClientIPs == {"192.168.1.10", "192.168.1.11"}
ClientPorts == {40000}
ServerIPs == {"192.168.1.1"}

\* packet_info of a block that parse_packet classified; id stands for the
\* capture timestamp of the block, which tells the blocks apart: the n-th
\* classified block has id n.
RequestPackets(id) ==
    [id : {id}, packet_type : {"request"}, src_ip : ClientIPs, src_port : ClientPorts,
     dst_ip : ServerIPs, dst_port : {NtpPort}]
ResponsePackets(id) ==
    [id : {id}, packet_type : {"response"}, src_ip : ServerIPs, src_port : {NtpPort},
     dst_ip : ClientIPs, dst_port : ClientPorts]

SessionKeys == ClientIPs \X ClientPorts \X ServerIPs

NoRequest == [present |-> FALSE]

\* A faulty variant of get_session_key, kept to show that the property tells them apart: the response key is not turned around.
GetSessionKeySameOrder(packet_info) ==
    <<packet_info.src_ip, packet_info.src_port, packet_info.dst_ip>>

get_session_key(packet_info) ==
    IF packet_info.packet_type = "request"
    THEN <<packet_info.src_ip, packet_info.src_port, packet_info.dst_ip>>
    ELSE <<packet_info.dst_ip, packet_info.dst_port, packet_info.src_ip>>

\* The state of the analyzer that pairing and cleanup work on.
Analyzer ==
    [pending_requests |-> pending_requests, completed_sessions |-> completed_sessions,
     unmatched_packets |-> unmatched_packets, session_count |-> session_count]

HasPending(a, key) == key \in DOMAIN a.pending_requests /\ a.pending_requests[key].present

try_pair_packet(a, packet_info, now) ==
    LET session_key == get_session_key(packet_info)
    IN  IF packet_info.packet_type = "request"
        THEN [a EXCEPT !.pending_requests[session_key] =
                 [present |-> TRUE, packet_info |-> packet_info, timestamp |-> now,
                  \* the place of the key in the dict: assigning to a key that
                  \* is already there keeps its place
                  slot |-> IF HasPending(a, session_key)
                           THEN a.pending_requests[session_key].slot
                           ELSE packet_info.id]]
        ELSE IF HasPending(a, session_key)
        THEN [a EXCEPT
                 !.pending_requests[session_key] = NoRequest,
                 !.session_count = a.session_count + 1,
                 !.completed_sessions = Append(a.completed_sessions,
                     [session_id |-> a.session_count + 1,
                      request |-> [packet_info |-> a.pending_requests[session_key].packet_info,
                                   timestamp |-> a.pending_requests[session_key].timestamp],
                      response |-> [packet_info |-> packet_info, timestamp |-> now]])]
        ELSE [a EXCEPT !.unmatched_packets = Append(a.unmatched_packets,
                 [type |-> "orphaned_response", packet_info |-> packet_info])]

\* The keys of the pending requests older than the pairing timeout.
ExpiredKeys(a, now) ==
    {key \in SessionKeys :
        a.pending_requests[key].present /\
        now - a.pending_requests[key].timestamp > pairing_timeout}

\* The orphaned_request entries for a set of expired keys, in the order in
\* which the dict is walked: the order in which the keys were inserted.
RECURSIVE OrphanEntries(_, _)
OrphanEntries(a, keys) ==
    IF keys = {} THEN <<>>
    ELSE LET key == CHOOSE k \in keys :
                       \A k2 \in keys : a.pending_requests[k].slot <=
                                        a.pending_requests[k2].slot
         IN  <<[type |-> "orphaned_request",
                packet_info |-> a.pending_requests[key].packet_info]>>
             \o OrphanEntries(a, keys \ {key})

cleanup_old_requests(a, now) ==
    LET expired_keys == ExpiredKeys(a, now)
    IN  [a EXCEPT
            !.unmatched_packets = a.unmatched_packets \o OrphanEntries(a, expired_keys),
            !.pending_requests = [key \in SessionKeys |->
                IF key \in expired_keys THEN NoRequest ELSE a.pending_requests[key]]]

\* process_packet_block for a classified block read as block number count.
process_packet_block(a, packet_info, count, now) ==
    LET paired == try_pair_packet(a, packet_info, now)
    IN  IF count % CleanupEvery = 0 THEN cleanup_old_requests(paired, now) ELSE paired

InitWorker ==
    /\ packet_count = 0
    /\ session_count = 0
    /\ pending_requests = [key \in SessionKeys |-> NoRequest]
    /\ completed_sessions = <<>>
    /\ unmatched_packets = <<>>
    /\ capture_clock = 0
    /\ classified = 0

\* run_capture reads a block that parse_packet classifies as request or response.
CaptureClassifiedBlock(packet_info) ==
    /\ packet_count < MaxBlocks
    /\ classified < MaxClassified
    /\ packet_count' = packet_count + 1
    /\ classified' = classified + 1
    /\ LET a == process_packet_block(Analyzer, packet_info, packet_count + 1, capture_clock)
       IN  /\ pending_requests' = a.pending_requests
           /\ completed_sessions' = a.completed_sessions
           /\ unmatched_packets' = a.unmatched_packets
           /\ session_count' = a.session_count
    /\ UNCHANGED <<capture_clock, storeVars, ingestVars, apiVars>>

\* run_capture reads a block without a packet_type: it is counted, nothing else.
CaptureOtherBlock ==
    /\ packet_count < MaxBlocks
    /\ packet_count' = packet_count + 1
    /\ UNCHANGED <<session_count, pending_requests, completed_sessions, unmatched_packets,
                   capture_clock, classified, storeVars, ingestVars, apiVars>>

CaptureTick ==
    /\ capture_clock < MaxCaptureClock
    /\ capture_clock' = capture_clock + 1
    /\ UNCHANGED <<packet_count, session_count, pending_requests, completed_sessions,
                   unmatched_packets, classified, storeVars, ingestVars, apiVars>>

NextWorker ==
    \/ \E packet_info \in RequestPackets(classified + 1) \cup ResponsePackets(classified + 1) :
          CaptureClassifiedBlock(packet_info)
    \/ CaptureOtherBlock
    \/ CaptureTick

(***************************************************************************)
(* The systemd-networkd config codec: utils/config_parser.py.              *)
(* A Python str is the sequence of its characters; None is NoneStr.        *)
(***************************************************************************)
D_private == <<"1", "0", ".", "0", ".", "0", ".", "0", "/", "8">>  \* "10.0.0.0/8"
D_default4 == <<"0", ".", "0", ".", "0", ".", "0", "/", "0">>  \* "0.0.0.0/0"
D_default6 == <<":", ":", "/", "0">>  \* "::/0"
D_lan == <<"1", "9", "2", ".", "1", "6", "8", ".", "1", ".", "0", "/", "2", "4">>  \* "192.168.1.0/24"
D_multicast4 == <<"2", "2", "4", ".", "0", ".", "0", ".", "0", "/", "4">>  \* "224.0.0.0/4"
D_linklocal6 == <<"f", "e", "8", "0", ":", ":", "/", "6", "4">>  \* "fe80::/64"
D_linklocal6_upper == <<"F", "E", "8", "0", ":", ":", "/", "1", "0">>  \* "FE80::/10"
D_multicast6 == <<"f", "f", "0", "0", ":", ":", "/", "8">>  \* "ff00::/8"
D_loop4 == <<"1", "2", "7", ".", "0", ".", "0", ".", "0", "/", "8">>  \* "127.0.0.0/8"
D_loop6 == <<":", ":", "1", "/", "1", "2", "8">>  \* "::1/128"
D_linklocal4 == <<"1", "6", "9", ".", "2", "5", "4", ".", "0", ".", "0", "/", "1", "6">>  \* "169.254.0.0/16"
D_word_multicast == <<"m", "u", "l", "t", "i", "c", "a", "s", "t">>  \* "multicast"
D_word_Broadcast == <<"B", "r", "o", "a", "d", "c", "a", "s", "t">>  \* "Broadcast"
D_word_local == <<"l", "o", "c", "a", "l">>  \* "local"
D_word_unreachable == <<"u", "n", "r", "e", "a", "c", "h", "a", "b", "l", "e">>  \* "unreachable"
D_word_prohibit == <<"p", "r", "o", "h", "i", "b", "i", "t">>  \* "prohibit"
D_word_blackhole == <<"b", "l", "a", "c", "k", "h", "o", "l", "e">>  \* "blackhole"
D_word_throw == <<"t", "h", "r", "o", "w">>  \* "throw"
D_v6net == <<"2", "0", "0", "1", ":", "d", "b", "8", ":", ":", "/", "3", "2">>  \* "2001:db8::/32"
G_router == <<"1", "9", "2", ".", "1", "6", "8", ".", "1", ".", "1">>  \* "192.168.1.1"
G_router2 == <<"1", "9", "2", ".", "1", "6", "8", ".", "1", ".", "2", "5", "4">>  \* "192.168.1.254"
G_v6 == <<"f", "e", "8", "0", ":", ":", "1">>  \* "fe80::1"
G_zero4 == <<"0", ".", "0", ".", "0", ".", "0">>  \* "0.0.0.0"
G_zero6 == <<":", ":">>  \* "::"
G_none == <<"n", "o", "n", "e">>  \* "none"
G_None == <<"N", "o", "n", "e">>  \* "None"
G_null == <<"N", "U", "L", "L">>  \* "NULL"
G_empty == <<>>  \* ""
A_v4 == <<"1", "9", "2", ".", "1", "6", "8", ".", "1", ".", "1", "0", "/", "2", "4">>  \* "192.168.1.10/24"
A_v4b == <<"1", "0", ".", "1", ".", "1", ".", "2", "/", "1", "6">>  \* "10.1.1.2/16"
A_v6 == <<"2", "0", "0", "1", ":", "d", "b", "8", ":", ":", "1", "0", "/", "6", "4">>  \* "2001:db8::10/64"
N_dns == <<"8", ".", "8", ".", "8", ".", "8">>  \* "8.8.8.8"
N_dns6 == <<"2", "0", "0", "1", ":", "d", "b", "8", ":", ":", "5", "3">>  \* "2001:db8::53"

\* None where a str is expected.
NoneStr == <<"<None>">>

UpperToLower ==
    "A" :> "a" @@ "B" :> "b" @@ "C" :> "c" @@ "D" :> "d" @@ "E" :> "e" @@ "F" :> "f" @@ "G" :> "g" @@ "H" :> "h" @@ "I" :> "i" @@ "J" :> "j" @@ "K" :> "k" @@ "L" :> "l" @@ "M" :> "m" @@ "N" :> "n" @@ "O" :> "o" @@ "P" :> "p" @@ "Q" :> "q" @@ "R" :> "r" @@ "S" :> "s" @@ "T" :> "t" @@ "U" :> "u" @@ "V" :> "v" @@ "W" :> "w" @@ "X" :> "x" @@ "Y" :> "y" @@ "Z" :> "z"

\* str.lower()
Lower(str) ==
    [k \in 1..Len(str) |-> IF str[k] \in DOMAIN UpperToLower THEN UpperToLower[str[k]] ELSE str[k]]

\* str.startswith(prefix)
StartsWith(str, prefix) ==
    Len(str) >= Len(prefix) /\ SubSeq(str, 1, Len(prefix)) = prefix

\* c in str
HasChar(str, c) == \E k \in 1..Len(str) : str[k] = c

\* str.strip(), for blanks
RECURSIVE Strip(_)
Strip(str) ==
    IF str = <<>> THEN str
    ELSE IF Head(str) = " " THEN Strip(Tail(str))
    ELSE IF str[Len(str)] = " " THEN Strip(SubSeq(str, 1, Len(str) - 1))
    ELSE str

\* str.split(): the maximal runs of non-blank characters
RECURSIVE Split(_)
Split(str) ==
    LET t == Strip(str)
        cut == IF HasChar(t, " ") THEN CHOOSE k \in 1..Len(t) :
                      t[k] = " " /\ \A j \in 1..(k - 1) : t[j] # " "
               ELSE Len(t) + 1
    IN  IF t = <<>> THEN <<>>
        ELSE <<SubSeq(t, 1, cut - 1)>> \o Split(SubSeq(t, cut, Len(t)))

\* format(value) inside an f-string: str(None) is "None"
Format(value) == IF value = NoneStr THEN G_None ELSE value

\* bool(value) of an Optional[str]
Truthy(value) == value # NoneStr /\ value # <<>>

excluded_destinations ==
    {D_word_multicast, Lower(D_word_Broadcast), D_word_local, D_word_unreachable,
     D_word_prohibit, D_word_blackhole, D_word_throw}

excluded_gateways == {G_none, G_empty, G_zero4, G_zero6, Lower(G_null)}

\* The prefixes of should_exclude_systemd_route, cut from the sample strings.
P_fe80_64 == D_linklocal6                    \* "fe80::/64"
P_224 == SubSeq(D_multicast4, 1, 10)         \* "224.0.0.0/"
P_ff00 == SubSeq(D_multicast6, 1, 7)         \* "ff00::/"
P_127 == SubSeq(D_loop4, 1, 10)              \* "127.0.0.0/"
P_loop6 == SubSeq(D_loop6, 1, 4)             \* "::1/"
P_169 == SubSeq(D_linklocal4, 1, 12)         \* "169.254.0.0/"
P_fe80 == SubSeq(D_linklocal6, 1, 7)         \* "fe80::/"

should_exclude_systemd_route(destination, gateway) ==
    \/ Lower(destination) \in excluded_destinations
    \/ StartsWith(Lower(destination), P_fe80_64)
    \/ StartsWith(destination, P_224) \/ StartsWith(Lower(destination), P_ff00)
    \/ (Truthy(gateway) /\ Lower(gateway) \in excluded_gateways)
    \/ StartsWith(destination, P_127) \/ StartsWith(Lower(destination), P_loop6)
    \/ StartsWith(destination, P_169) \/ StartsWith(Lower(destination), P_fe80)

\* A line of a .network file: a section header, a Key=value line or a blank
\* line.  The keys and section names are the literals of the regular
\* expressions; a value is the text after the "=".
SectionLine(name) == [kind |-> "section", name |-> name, key |-> "", value |-> <<>>]
KeyLine(key, value) == [kind |-> "key", name |-> "", key |-> key, value |-> value]
BlankLine == [kind |-> "blank", name |-> "", key |-> "", value |-> <<>>]

\* The lines "Key=v" for the values of a list.
KeyLines(key, values) == [k \in 1..Len(values) |-> KeyLine(key, Format(values[k]))]

\* The [Route] blocks generate_network_config writes for a list of routes.
RECURSIVE RouteBlocks(_)
RouteBlocks(routes) ==
    IF routes = <<>> THEN <<>>
    ELSE (IF ~should_exclude_systemd_route(Head(routes).destination, Head(routes).gateway)
          THEN <<BlankLine, SectionLine("Route"),
                 KeyLine("Destination", Format(Head(routes).destination)),
                 KeyLine("Gateway", Format(Head(routes).gateway))>>
          ELSE <<>>)
         \o RouteBlocks(Tail(routes))

\* generate_network_config(interface): the lines of the text
generate_network_config(interface) ==
    <<SectionLine("Match"), KeyLine("Name", interface.interface_name), BlankLine,
      SectionLine("Network")>>
    \o KeyLines("Address", interface.ipv4_addresses)
    \o KeyLines("Address", interface.ipv6_addresses)
    \o (IF Truthy(interface.ipv4_gateway)
        THEN <<KeyLine("Gateway", interface.ipv4_gateway)>> ELSE <<>>)
    \o (IF Truthy(interface.ipv6_gateway)
        THEN <<KeyLine("Gateway", interface.ipv6_gateway)>> ELSE <<>>)
    \o KeyLines("DNS", interface.dns)
    \o RouteBlocks(interface.systemd_networkd_routes)

\* The lines a section regex captures after the header at position at: the
\* lines up to the next "[".
RECURSIVE SectionBody(_, _)
SectionBody(text, at) ==
    IF at + 1 > Len(text) \/ text[at + 1].kind = "section" THEN <<>>
    ELSE <<text[at + 1]>> \o SectionBody(text, at + 1)

\* The positions of the headers of a section, in file order.
SectionStarts(text, name) ==
    {k \in 1..Len(text) : text[k].kind = "section" /\ text[k].name = name}

\* re.finditer(KEY_REGEX, body): the stripped values of the Key= lines that
\* have a value, in file order.
RECURSIVE KeyValues(_, _)
KeyValues(body, key) ==
    IF body = <<>> THEN <<>>
    ELSE (IF Head(body).kind = "key" /\ Head(body).key = key /\ Strip(Head(body).value) # <<>>
          THEN <<Strip(Head(body).value)>> ELSE <<>>)
         \o KeyValues(Tail(body), key)

\* The values of a list that hold, or do not hold, a colon.
RECURSIVE SelectColon(_, _)
SelectColon(values, with_colon) ==
    IF values = <<>> THEN <<>>
    ELSE (IF HasChar(Head(values), ":") = with_colon THEN <<Head(values)>> ELSE <<>>)
         \o SelectColon(Tail(values), with_colon)

\* The last value of a list, None for an empty one.
LastOrNone(values) == IF values = <<>> THEN NoneStr ELSE values[Len(values)]

\* config['dns'].extend(value.split()) for every DNS= line
RECURSIVE SplitAll(_)
SplitAll(values) ==
    IF values = <<>> THEN <<>> ELSE Split(Head(values)) \o SplitAll(Tail(values))

\* The routes parse_network_file reads from the [Route] sections that start
\* at the given positions.
RECURSIVE ParseRoutes(_, _)
ParseRoutes(text, starts) ==
    IF starts = {} THEN <<>>
    ELSE LET at == CHOOSE k \in starts : \A j \in starts : k <= j
             body == SectionBody(text, at)
             destinations == KeyValues(body, "Destination")
             gateways == KeyValues(body, "Gateway")
         IN  (IF destinations # <<>> /\ gateways # <<>>
                 /\ ~should_exclude_systemd_route(destinations[1], gateways[1])
              THEN <<[destination |-> destinations[1], gateway |-> gateways[1]]>>
              ELSE <<>>)
             \o ParseRoutes(text, starts \ {at})

NoName == <<>>
NoConfig == [parsed |-> FALSE]

\* parse_network_file(file_path) on the text of the file: (interface_name, config)
parse_network_file(text) ==
    LET match_starts == SectionStarts(text, "Match")
        match_at == CHOOSE k \in match_starts : \A j \in match_starts : k <= j
        names == KeyValues(SectionBody(text, match_at), "Name")
        network_starts == SectionStarts(text, "Network")
        network_at == CHOOSE k \in network_starts : \A j \in network_starts : k <= j
        network == IF network_starts = {} THEN <<>> ELSE SectionBody(text, network_at)
        addresses == KeyValues(network, "Address")
        gateways == KeyValues(network, "Gateway")
    IN  IF match_starts = {} THEN [interface_name |-> NoName, config |-> NoConfig]
        ELSE IF names = <<>> THEN [interface_name |-> NoName, config |-> NoConfig]
        ELSE [interface_name |-> names[1],
              config |-> [parsed |-> TRUE,
                          ipv4_addresses |-> SelectColon(addresses, FALSE),
                          ipv6_addresses |-> SelectColon(addresses, TRUE),
                          ipv4_gateway |-> LastOrNone(SelectColon(gateways, FALSE)),
                          ipv6_gateway |-> LastOrNone(SelectColon(gateways, TRUE)),
                          dns |-> SplitAll(KeyValues(network, "DNS")),
                          systemd_networkd_routes |->
                              ParseRoutes(text, SectionStarts(text, "Route"))]]

(***************************************************************************)
(* The codec applied to interface records and to routes.                   *)
(***************************************************************************)
MaxRoutes == 2          \* routes of one record
MaxAddresses == 2       \* IPv4 addresses of one record

IF_eth0 == <<"e", "t", "h", "0">>
IF_eth1 == <<"e", "t", "h", "1">>

\* The sequences over a set with at most n elements.
SeqsUpTo(S, n) == UNION {[1..k -> S] : k \in 0..n}

\* Route objects as configure_interface builds them: from a validated
\* supplied route, or from an active kernel route (gateway None when the
\* route has no "via").
SampleRoutes ==
    {[destination |-> D_private, gateway |-> G_router2],
     [destination |-> D_v6net, gateway |-> G_v6],
     [destination |-> D_multicast4, gateway |-> G_zero4],
     [destination |-> D_lan, gateway |-> NoneStr]}

SampleInterfaces ==
    {[interface_name |-> IF_eth0,
      ipv4_addresses |-> a4,
      ipv6_addresses |-> IF v6 THEN <<A_v6>> ELSE <<>>,
      ipv4_gateway |-> g4,
      ipv6_gateway |-> IF v6 THEN G_v6 ELSE NoneStr,
      dns |-> d,
      systemd_networkd_routes |-> routes] :
        a4 \in SeqsUpTo({A_v4, A_v4b}, MaxAddresses),
        v6 \in BOOLEAN,
        g4 \in {NoneStr, G_router},
        d \in {<<>>, <<N_dns, N_dns6>>},
        routes \in SeqsUpTo(SampleRoutes, MaxRoutes)}

SampleDestinations ==
    {D_private, D_default4, D_default6, D_lan, D_multicast4, D_linklocal6,
     D_linklocal6_upper, D_multicast6, D_loop4, D_loop6, D_linklocal4,
     D_word_multicast, D_word_Broadcast, D_word_local, D_word_unreachable,
     D_word_prohibit, D_word_blackhole, D_word_throw, D_v6net}

SampleGateways ==
    {G_router, G_router2, G_v6, G_zero4, G_zero6, G_none, G_None, G_null, G_empty, NoneStr}

NoInterface == [interface_name |-> <<>>]
NoRoute == [judged |-> FALSE]

InitCodec ==
    /\ codec_pc = "idle"
    /\ codec_interface = NoInterface
    /\ codec_text = <<>>
    /\ codec_parsed = [interface_name |-> NoName, config |-> NoConfig]
    /\ codec_route = NoRoute

\* generate_network_config(interface)
CodecGenerate(interface) ==
    /\ codec_pc = "idle"
    /\ codec_pc' = "generated"
    /\ codec_interface' = interface
    /\ codec_text' = generate_network_config(interface)
    /\ UNCHANGED <<codec_parsed, codec_route, notCodecVars>>

\* parse_network_file on a file holding the generated text
CodecParse ==
    /\ codec_pc = "generated"
    /\ codec_pc' = "parsed"
    /\ codec_parsed' = parse_network_file(codec_text)
    /\ UNCHANGED <<codec_interface, codec_text, codec_route, notCodecVars>>

\* should_exclude_systemd_route(destination, gateway)
CodecJudgeRoute(destination, gateway) ==
    /\ codec_pc = "idle"
    /\ codec_pc' = "judged"
    /\ codec_route' = [judged |-> TRUE, destination |-> destination, gateway |-> gateway,
                       excluded |-> should_exclude_systemd_route(destination, gateway)]
    /\ UNCHANGED <<codec_interface, codec_text, codec_parsed, notCodecVars>>

NextCodec ==
    \/ \E interface \in SampleInterfaces : CodecGenerate(interface)
    \/ CodecParse
    \/ \E destination \in SampleDestinations, gateway \in SampleGateways :
          CodecJudgeRoute(destination, gateway)

(***************************************************************************)
(* Network configuration: services/network_service.py,                     *)
(* services/file_service.py, utils/validators.py, routes/network_routes.py.*)
(* The config directory is a map from file name to file, together with the *)
(* order os.listdir returns the names in; the backup directory is a set of *)
(* copies named by file name and second.                                   *)
(***************************************************************************)
MaxNetWrites == 1       \* calls of write_config_file in one behaviour
MaxNetClock == 1        \* seconds of the wall clock that names the backups

IF_eth2 == <<"e", "t", "h", "2">>
NetworkSuffix == <<".", "n", "e", "t", "w", "o", "r", "k">>
F_lan == <<"1", "0", "-", "l", "a", "n">> \o NetworkSuffix     \* "10-lan.network"
NETWORK_CONFIG_DIR == <<"/etc/systemd/network/">>
B_invalid == <<"i", "n", "v", "a", "l", "i", "d", "-", "i", "p">>  \* "invalid-ip"
B_hostname == <<"d", "n", "s", ".", "l", "a", "n">>              \* "dns.lan"

\* f"{interface_name}.network"
NetworkFileName(interface_name) == interface_name \o NetworkSuffix

\* The file names of the config directory the model follows.
Filenames == {F_lan} \cup {NetworkFileName(n) : n \in {IF_eth0, IF_eth1, IF_eth2}}

NoFile == [exists |-> FALSE, text |-> <<>>]
File(text) == [exists |-> TRUE, text |-> text]

\* os.path.join(config.NETWORK_CONFIG_DIR, filename)
ConfigPath(filename) == NETWORK_CONFIG_DIR \o filename

\* str.endswith
EndsWith(str, suffix) ==
    /\ Len(str) >= Len(suffix)
    /\ SubSeq(str, Len(str) - Len(suffix) + 1, Len(str)) = suffix

\* discover_network_interfaces(): the names under /sys/class/net, in the
\* order os.listdir returns them.
discover_network_interfaces == <<IF_eth1, IF_eth0>>

\* get_interface_link_status(interface_name)
get_interface_link_status(interface_name) ==
    IF interface_name = IF_eth0 THEN "up" ELSE "no-carrier"

\* The status a record gets from the link status.
StatusOf(link_status) ==
    IF link_status \in {"up", "down", "no-carrier"} THEN link_status ELSE "unknown"

\* Route(destination, gateway, dev)
Route(destination, gateway, dev) ==
    [destination |-> destination, gateway |-> gateway, dev |-> dev]

\* The ordering of Python strings, on the characters the names use.
Alphabet ==
    <<"-", ".", "/", "0", "1", "2", "3", "4", "5", "6", "7", "8", "9", ":",
      "a", "b", "c", "d", "e", "f", "g", "h", "i", "j", "k", "l", "m",
      "n", "o", "p", "q", "r", "s", "t", "u", "v", "w", "x", "y", "z">>
Ord(c) == CHOOSE k \in 1..Len(Alphabet) : Alphabet[k] = c

RECURSIVE StrLess(_, _)
StrLess(a, b) ==
    IF b = <<>> THEN FALSE
    ELSE IF a = <<>> THEN TRUE
    ELSE IF Head(a) # Head(b) THEN Ord(Head(a)) < Ord(Head(b))
    ELSE StrLess(Tail(a), Tail(b))

\* list.sort(key=lambda x: x.interface_name): a stable insertion sort
RECURSIVE InsertByName(_, _)
InsertByName(sorted, x) ==
    IF sorted = <<>> THEN <<x>>
    ELSE IF StrLess(x.interface_name, Head(sorted).interface_name)
         THEN <<x>> \o sorted
         ELSE <<Head(sorted)>> \o InsertByName(Tail(sorted), x)

RECURSIVE SortByName(_)
SortByName(interfaces) ==
    IF interfaces = <<>> THEN <<>>
    ELSE InsertByName(SortByName(SubSeq(interfaces, 1, Len(interfaces) - 1)),
                      interfaces[Len(interfaces)])

\* find_network_files(): the *.network names of the directory, in listdir order
find_network_files(listdir) ==
    SelectSeq(listdir, LAMBDA filename : EndsWith(filename, NetworkSuffix))

\* parse_network_file on a path of the config directory
ParseFile(files, filename) ==
    IF files[filename].exists THEN parse_network_file(files[filename].text)
    ELSE [interface_name |-> NoName, config |-> NoConfig]

NoPath == <<>>

\* get_interface_config_file(interface_name): the file name, NoPath for None
get_interface_config_file(files, listdir, interface_name) ==
    LET expected_filename == NetworkFileName(interface_name)
        network_files == find_network_files(listdir)
        hits == {k \in 1..Len(network_files) :
                    ParseFile(files, network_files[k]).interface_name = interface_name}
    IN  IF files[expected_filename].exists THEN expected_filename
        ELSE IF hits = {} THEN NoPath
        ELSE network_files[CHOOSE k \in hits : \A j \in hits : k <= j]

\* filter_user_configurable_routes(routes)
RECURSIVE filter_user_configurable_routes(_)
filter_user_configurable_routes(routes) ==
    IF routes = <<>> THEN <<>>
    ELSE (IF should_exclude_systemd_route(Head(routes).destination, Head(routes).gateway)
          THEN <<>>
          ELSE <<Route(Head(routes).destination, Head(routes).gateway, NoneStr)>>)
         \o filter_user_configurable_routes(Tail(routes))

\* NetworkInterface(interface_name=interface_name) with its default fields
NewInterface(interface_name) ==
    [interface_name |-> interface_name, config_file |-> NoPath,
     ipv4_addresses |-> <<>>, ipv6_addresses |-> <<>>,
     ipv4_gateway |-> NoneStr, ipv6_gateway |-> NoneStr, dns |-> <<>>,
     systemd_networkd_routes |-> <<>>, active_system_routes |-> <<>>,
     status |-> "unconfigured"]

\* The declared fields of a record, read from a parsed config.
WithConfig(interface, config_data) ==
    [interface EXCEPT !.ipv4_addresses = config_data.ipv4_addresses,
                      !.ipv6_addresses = config_data.ipv6_addresses,
                      !.ipv4_gateway = config_data.ipv4_gateway,
                      !.ipv6_gateway = config_data.ipv6_gateway,
                      !.dns = config_data.dns,
                      !.systemd_networkd_routes =
                          filter_user_configurable_routes(config_data.systemd_networkd_routes)]

\* get_active_routes(): the routes of a device, empty when it has none
ActiveRoutesOf(active_routes, interface_name) ==
    IF interface_name \in DOMAIN active_routes THEN active_routes[interface_name] ELSE <<>>

InSystem(interface_name) ==
    \E k \in 1..Len(discover_network_interfaces) :
        discover_network_interfaces[k] = interface_name

\* None where a record is expected.
NoRecord == NewInterface(NoName)

\* get_interface(interface_name): the record, NoRecord for None
get_interface(files, listdir, active_routes, interface_name) ==
    IF ~InSystem(interface_name) THEN NoRecord
    ELSE LET config_file == get_interface_config_file(files, listdir, interface_name)
             config_data == ParseFile(files, config_file).config
             found == IF config_file = NoPath THEN NewInterface(interface_name)
                      ELSE LET named == [NewInterface(interface_name)
                                            EXCEPT !.config_file = ConfigPath(config_file)]
                           IN  IF config_data.parsed THEN WithConfig(named, config_data)
                               ELSE named
         IN  [found EXCEPT !.status = StatusOf(get_interface_link_status(interface_name)),
                           !.active_system_routes =
                               ActiveRoutesOf(active_routes, interface_name)]

\* get_all_interfaces(): the records, sorted by name
get_all_interfaces(files, listdir, active_routes) ==
    LET network_files == find_network_files(listdir)
        \* interface_configs[name]: the last file in listdir order that parses
        \* to the name
        ConfigsOf(interface_name) ==
            {k \in 1..Len(network_files) :
                LET parsed == ParseFile(files, network_files[k])
                IN  parsed.interface_name # NoName /\ parsed.config.parsed
                    /\ parsed.interface_name = interface_name}
        RecordOf(interface_name) ==
            LET ks == ConfigsOf(interface_name)
                at == CHOOSE k \in ks : \A j \in ks : j <= k
                found == IF ks = {} THEN NewInterface(interface_name)
                         ELSE WithConfig([NewInterface(interface_name)
                                             EXCEPT !.config_file =
                                                 ConfigPath(network_files[at])],
                                         ParseFile(files, network_files[at]).config)
            IN  [found EXCEPT !.status = StatusOf(get_interface_link_status(interface_name)),
                              !.active_system_routes =
                                  ActiveRoutesOf(active_routes, interface_name)]
    IN  SortByName([k \in 1..Len(discover_network_interfaces) |->
                       RecordOf(discover_network_interfaces[k])])

\* The ipaddress library, on the literals the model uses: the addresses it
\* accepts, and the networks it accepts with and without strict host bits.
IPv4Literals == {G_router, G_router2, G_zero4, N_dns}
IPv6Literals == {G_v6, G_zero6, N_dns6}
Slash32 == <<"/", "3", "2">>
Slash128 == <<"/", "1", "2", "8">>
StrictNetworks ==
    {D_private, D_default4, D_default6, D_lan, D_multicast4, D_linklocal6, D_multicast6,
     D_loop4, D_loop6, D_linklocal4, D_v6net}
    \cup IPv4Literals \cup IPv6Literals
    \cup {a \o Slash32 : a \in IPv4Literals} \cup {a \o Slash128 : a \in IPv6Literals}
HostNetworks == {A_v4, A_v4b, A_v6}

\* ipaddress.ip_address(s) does not raise
ip_address(s) == s \in IPv4Literals \cup IPv6Literals

\* ipaddress.ip_network(s, strict) does not raise
ip_network(s, strict) == s \in StrictNetworks \/ (~strict /\ s \in HostNetworks)

\* validate_ip_address(ip)
validate_ip_address(ip) ==
    LET test_ip == IF ~HasChar(ip, "/")
                   THEN (IF ~HasChar(ip, ":") THEN ip \o Slash32 ELSE ip \o Slash128)
                   ELSE ip
    IN  ip # NoneStr /\ ip_network(test_ip, FALSE)

\* validate_route(route)
validate_route(route) ==
    /\ route.destination # NoneStr
    /\ ip_network(route.destination, TRUE)
    /\ route.gateway # NoneStr
    /\ ~HasChar(route.gateway, "/")
    /\ ip_address(route.gateway)

\* The error messages of one list field of the config, one per bad entry.
ErrorsOf(bad, message) ==
    [k \in 1..Len(bad) |-> <<message>> \o Format(bad[k])]

\* validate_network_config(config): the list of errors, empty for True
validate_network_config(config_data) ==
    (IF ~Truthy(config_data.interface_name)
     THEN <<<<"Interface name is required">>>> ELSE <<>>)
    \o ErrorsOf(SelectSeq(config_data.ipv4_addresses,
                    LAMBDA addr : ~validate_ip_address(addr) \/ HasChar(addr, ":")),
                "Invalid IPv4 address format: ")
    \o ErrorsOf(SelectSeq(config_data.ipv6_addresses,
                    LAMBDA addr : ~validate_ip_address(addr) \/ ~HasChar(addr, ":")),
                "Invalid IPv6 address format: ")
    \o (IF Truthy(config_data.ipv4_gateway)
           /\ (~validate_ip_address(config_data.ipv4_gateway)
               \/ HasChar(config_data.ipv4_gateway, ":"))
        THEN <<<<"Invalid IPv4 gateway format: ">> \o config_data.ipv4_gateway>>
        ELSE <<>>)
    \o (IF Truthy(config_data.ipv6_gateway)
           /\ (~validate_ip_address(config_data.ipv6_gateway)
               \/ ~HasChar(config_data.ipv6_gateway, ":"))
        THEN <<<<"Invalid IPv6 gateway format: ">> \o config_data.ipv6_gateway>>
        ELSE <<>>)
    \o ErrorsOf(SelectSeq(config_data.dns, LAMBDA dns : ~validate_ip_address(dns)),
                "Invalid DNS server address: ")
    \o (LET bad == SelectSeq(config_data.routes, LAMBDA route : ~validate_route(route))
        IN  [k \in 1..Len(bad) |->
                <<"Invalid route configuration: ">> \o Format(bad[k].destination)])

\* ', '.join(errors): one message that holds every error, in order
RECURSIVE Join(_)
Join(errors) ==
    IF errors = <<>> THEN <<>>
    ELSE IF Len(errors) = 1 THEN errors[1]
    ELSE errors[1] \o <<", ">> \o Join(Tail(errors))

\* backup_config_file(file_path) for a file that exists: the backup
\* directory after shutil.copy2 to <backup-dir><filename>.<timestamp>
backup_config_file(files, backups, now, filename) ==
    {b \in backups : ~(b.filename = filename /\ b.timestamp = now)}
    \cup {[filename |-> filename, timestamp |-> now, text |-> files[filename].text]}

\* The listdir order after a name is created at some position.
InsertAt(listdir, position, filename) ==
    SubSeq(listdir, 1, position - 1) \o <<filename>> \o SubSeq(listdir, position, Len(listdir))

\* A faulty variant of write_config_file, kept to show that the property
\* tells them apart: it writes even when the backup failed.
WriteConfigFileIgnoringBackup(files, listdir, backups, now, filename, content, backup_ok, outcome, position) ==
    LET existed == files[filename].exists
        backed_up == IF existed /\ backup_ok
                     THEN backup_config_file(files, backups, now, filename) ELSE backups
        created == IF existed THEN listdir ELSE InsertAt(listdir, position, filename)
    IN  IF outcome = "open_fails"
        THEN [success |-> FALSE, error |-> <<"open failed">>,
              files |-> files, listdir |-> listdir, backups |-> backed_up]
        ELSE IF outcome = "write_fails"
        THEN [success |-> FALSE, error |-> <<"write failed">>,
              files |-> [files EXCEPT ![filename] = File(<<>>)],
              listdir |-> created, backups |-> backed_up]
        ELSE [success |-> TRUE, error |-> <<>>,
              files |-> [files EXCEPT ![filename] = File(content)],
              listdir |-> created, backups |-> backed_up]

\* write_config_file(filename, content).  backup_ok: shutil.copy2 does not
\* raise; outcome: "ok", "open_fails" (open raises, the file is untouched) or
\* "write_fails" (the file is opened, so created or truncated, and the write
\* raises); position: where a new name lands in the listdir order.
write_config_file(files, listdir, backups, now, filename, content, backup_ok, outcome, position) ==
    LET existed == files[filename].exists
        backed_up == IF existed THEN backup_config_file(files, backups, now, filename)
                     ELSE backups
        created == IF existed THEN listdir ELSE InsertAt(listdir, position, filename)
    IN  IF existed /\ ~backup_ok
        THEN [success |-> FALSE, error |-> <<"Failed to create backup: ", "copy failed">>,
              files |-> files, listdir |-> listdir, backups |-> backups]
        ELSE IF outcome = "open_fails"
        THEN [success |-> FALSE, error |-> <<"open failed">>,
              files |-> files, listdir |-> listdir, backups |-> backed_up]
        ELSE IF outcome = "write_fails"
        THEN [success |-> FALSE, error |-> <<"write failed">>,
              files |-> [files EXCEPT ![filename] = File(<<>>)],
              listdir |-> created, backups |-> backed_up]
        ELSE [success |-> TRUE, error |-> <<>>,
              files |-> [files EXCEPT ![filename] = File(content)],
              listdir |-> created, backups |-> backed_up]

\* The supplied routes configure_interface keeps.
RECURSIVE SuppliedRoutes(_)
SuppliedRoutes(routes) ==
    IF routes = <<>> THEN <<>>
    ELSE (IF ~should_exclude_systemd_route(Head(routes).destination, Head(routes).gateway)
          THEN <<Route(Head(routes).destination, Head(routes).gateway, NoneStr)>>
          ELSE <<>>)
         \o SuppliedRoutes(Tail(routes))

\* route.gateway or ''
OrEmpty(value) == IF Truthy(value) THEN value ELSE G_empty

\* A faulty variant of CarriedRoutes, kept to show that the property tells
\* them apart: it carries the default routes forward too.
CarriedRoutesWithDefault(current_interface) ==
    LET managed_routes ==
            {<<current_interface.systemd_networkd_routes[k].destination,
               current_interface.systemd_networkd_routes[k].gateway>> :
                 k \in 1..Len(current_interface.systemd_networkd_routes)}
    IN  SelectSeq(current_interface.active_system_routes,
                  LAMBDA route :
                      /\ <<route.destination, route.gateway>> \notin managed_routes
                      /\ ~should_exclude_systemd_route(route.destination,
                                                       OrEmpty(route.gateway)))

\* The active routes configure_interface carries forward.
CarriedRoutes(current_interface) ==
    LET managed_routes ==
            {<<current_interface.systemd_networkd_routes[k].destination,
               current_interface.systemd_networkd_routes[k].gateway>> :
                 k \in 1..Len(current_interface.systemd_networkd_routes)}
    IN  SelectSeq(current_interface.active_system_routes,
                  LAMBDA route :
                      /\ <<route.destination, route.gateway>> \notin managed_routes
                      /\ route.destination \notin {D_default4, D_default6}
                      /\ ~should_exclude_systemd_route(route.destination,
                                                       OrEmpty(route.gateway)))

\* The record configure_interface builds from a valid config and from the
\* record get_interface returned for the interface.
NewRecord(current_interface, interface_name, config_data) ==
    [interface_name |-> interface_name,
     config_file |-> NETWORK_CONFIG_DIR \o NetworkFileName(interface_name),
     ipv4_addresses |-> config_data.ipv4_addresses,
     ipv6_addresses |-> config_data.ipv6_addresses,
     ipv4_gateway |-> config_data.ipv4_gateway,
     ipv6_gateway |-> config_data.ipv6_gateway,
     dns |-> config_data.dns,
     systemd_networkd_routes |->
         SuppliedRoutes(config_data.routes) \o CarriedRoutes(current_interface),
     active_system_routes |-> <<>>,
     status |-> "configured"]

\* A faulty variant of configure_interface, kept to show that the property
\* tells them apart: it validates after it has written the file.
ConfigureInterfaceWritingFirst(files, listdir, backups, interface_name, errors, new_interface, written) ==
    IF ~InSystem(interface_name)
    THEN [success |-> FALSE, wrote |-> FALSE, record |-> NoRecord,
          error |-> <<"Interface ">> \o interface_name \o <<" does not exist">>,
          files |-> files, listdir |-> listdir, backups |-> backups]
    ELSE IF errors # <<>>
    THEN [success |-> FALSE, wrote |-> FALSE, record |-> NoRecord,
          error |-> <<"Invalid configuration: ">> \o Join(errors),
          files |-> written.files, listdir |-> written.listdir,
          backups |-> written.backups]
    ELSE IF ~written.success
    THEN [success |-> FALSE, wrote |-> TRUE, record |-> NoRecord,
          error |-> <<"Failed to write configuration file: ">> \o written.error,
          files |-> written.files, listdir |-> written.listdir,
          backups |-> written.backups]
    ELSE [success |-> TRUE, wrote |-> TRUE, record |-> new_interface, error |-> <<>>,
          files |-> written.files, listdir |-> written.listdir,
          backups |-> written.backups]

\* configure_interface(interface_name, config_data): success, the record or
\* the error message, and the directories after the call.  errors is what
\* validate_network_config returned, new_interface the record built, and
\* written what write_config_file returned for its generated text.
configure_interface(files, listdir, backups, interface_name, errors, new_interface, written) ==
    IF ~InSystem(interface_name)
    THEN [success |-> FALSE, wrote |-> FALSE, record |-> NoRecord,
          error |-> <<"Interface ">> \o interface_name \o <<" does not exist">>,
          files |-> files, listdir |-> listdir, backups |-> backups]
    ELSE IF errors # <<>>
    THEN [success |-> FALSE, wrote |-> FALSE, record |-> NoRecord,
          error |-> <<"Invalid configuration: ">> \o Join(errors),
          files |-> files, listdir |-> listdir, backups |-> backups]
    ELSE IF ~written.success
    THEN [success |-> FALSE, wrote |-> TRUE, record |-> NoRecord,
          error |-> <<"Failed to write configuration file: ">> \o written.error,
          files |-> written.files, listdir |-> written.listdir,
          backups |-> written.backups]
    ELSE [success |-> TRUE, wrote |-> TRUE, record |-> new_interface, error |-> <<>>,
          files |-> written.files, listdir |-> written.listdir,
          backups |-> written.backups]

\* Texts an administrator puts into the config directory by hand.  In a file
\* of their own naming: a config of eth0 with one route, a config of an
\* interface that is not discovered.  In eth0.network: an earlier config of
\* eth0.
T_lan ==
    generate_network_config(
        [NewInterface(IF_eth0) EXCEPT !.ipv4_addresses = <<A_v4>>,
                                      !.ipv4_gateway = G_router,
                                      !.systemd_networkd_routes =
                                          <<Route(D_private, G_router2, NoneStr)>>])
T_eth2 ==
    generate_network_config([NewInterface(IF_eth2) EXCEPT !.ipv4_addresses = <<A_v4b>>])
T_eth0 ==
    generate_network_config(
        [NewInterface(IF_eth0) EXCEPT !.ipv4_addresses = <<A_v4b>>,
                                      !.systemd_networkd_routes =
                                          <<Route(D_v6net, G_v6, NoneStr)>>])
AdminFiles ==
    {<<F_lan, T_lan>>, <<F_lan, T_eth2>>, <<NetworkFileName(IF_eth0), T_eth0>>}

\* Strings of services/system_service.py.
D_word_default == <<"d", "e", "f", "a", "u", "l", "t">>  \* "default"
D_host_loop4 == <<"1", "2", "7", ".", "0", ".", "0", ".", "1", "/", "3", "2">>  \* "127.0.0.1/32"
D_host_linklocal6 == <<"f", "e", "8", "0", ":", ":", "2", "/", "1", "2", "8">>  \* "fe80::2/128"
S_32 == <<"/", "3", "2">>                     \* "/32"
S_128 == <<"/", "1", "2", "8">>               \* "/128"
H_loop4 == SubSeq(D_host_loop4, 1, 9)         \* "127.0.0.1"
H_loop6 == SubSeq(D_loop6, 1, 3)              \* "::1"
Q_169 == SubSeq(D_linklocal4, 1, 8)           \* "169.254."
Q_fe80 == SubSeq(D_linklocal6, 1, 5)          \* "fe80:"

\* sub in str
Contains(str, sub) ==
    \E k \in 1..(Len(str) - Len(sub) + 1) : SubSeq(str, k, k + Len(sub) - 1) = sub

\* str.split('/')[0]
BeforeSlash(str) ==
    IF HasChar(str, "/")
    THEN SubSeq(str, 1, (CHOOSE k \in 1..Len(str) :
                            str[k] = "/" /\ \A j \in 1..(k - 1) : str[j] # "/") - 1)
    ELSE str

\* should_exclude_route(destination, gateway, dev)
should_exclude_route(destination, gateway, dev) ==
    \/ Lower(destination) \in excluded_destinations
    \/ StartsWith(destination, P_fe80_64)
    \/ StartsWith(destination, P_224) \/ StartsWith(destination, P_ff00)
    \/ (Truthy(gateway) /\ Lower(gateway) \in {G_none, G_empty, G_zero4, G_zero6, Lower(G_null)})
    \/ /\ Contains(destination, S_32) \/ Contains(destination, S_128)
       /\ \/ BeforeSlash(destination) \in {H_loop4, H_loop6}
          \/ StartsWith(BeforeSlash(destination), Q_169)
          \/ StartsWith(BeforeSlash(destination), Q_fe80)

\* The routes one "ip route show" output gives: a line is the destination
\* word, the word after "via" and the word after "dev", NoneStr when the
\* line has none; "default" is replaced by the default destination of the
\* family; excluded lines and lines without a device are skipped.
RECURSIVE RoutesOfOutput(_, _)
RoutesOfOutput(lines, default_destination) ==
    IF lines = <<>> THEN <<>>
    ELSE LET line == Head(lines)
             destination == IF line.destination = D_word_default THEN default_destination
                            ELSE line.destination
         IN  (IF should_exclude_route(destination, line.gateway, line.dev)
                 \/ ~Truthy(line.dev)
              THEN <<>>
              ELSE <<Route(destination, line.gateway, line.dev)>>)
             \o RoutesOfOutput(Tail(lines), default_destination)

\* get_active_routes(): device -> its routes, the IPv4 ones first
NoActiveRoutes == [n \in {IF_eth0, IF_eth1} |-> <<>>]
get_active_routes(output4, output6) ==
    LET routes == RoutesOfOutput(output4, D_default4) \o RoutesOfOutput(output6, D_default6)
    IN  [n \in {IF_eth0, IF_eth1} |-> SelectSeq(routes, LAMBDA route : route.dev = n)]

\* What "ip route show" and "ip -6 route show" print on the host.
SampleKernelTables ==
    {[output4 |-> <<>>, output6 |-> <<>>],
     [output4 |-> <<Route(D_word_default, G_router, IF_eth0), Route(D_lan, NoneStr, IF_eth0),
                    Route(D_linklocal4, NoneStr, IF_eth0), Route(D_multicast4, NoneStr, IF_eth0),
                    Route(D_host_loop4, NoneStr, IF_eth0), Route(D_private, G_router2, IF_eth0),
                    Route(D_word_unreachable, NoneStr, NoneStr)>>,
      output6 |-> <<Route(D_v6net, G_v6, IF_eth0), Route(D_linklocal6, NoneStr, IF_eth0),
                    Route(D_host_linklocal6, NoneStr, IF_eth0),
                    Route(D_word_default, G_v6, IF_eth0)>>]}
SampleActiveRoutes ==
    {get_active_routes(kernel.output4, kernel.output6) : kernel \in SampleKernelTables}

\* Request bodies of POST /api/network/interfaces/<name>.
ConfigData(ipv4_addresses, ipv6_addresses, ipv4_gateway, ipv6_gateway, dns, routes) ==
    [interface_name |-> NoName,
     ipv4_addresses |-> ipv4_addresses, ipv6_addresses |-> ipv6_addresses,
     ipv4_gateway |-> ipv4_gateway, ipv6_gateway |-> ipv6_gateway,
     dns |-> dns, routes |-> routes]
SampleConfigData ==
    {ConfigData(<<A_v4>>, <<>>, G_router, NoneStr, <<N_dns>>, <<>>),
     ConfigData(<<A_v4b>>, <<A_v6>>, NoneStr, NoneStr, <<>>,
                <<[destination |-> D_private, gateway |-> G_router2],
                  [destination |-> D_multicast4, gateway |-> G_zero4]>>),
     ConfigData(<<B_invalid>>, <<>>, G_router, NoneStr, <<N_dns>>, <<>>),
     ConfigData(<<A_v6>>, <<>>, NoneStr, NoneStr, <<B_hostname>>,
                <<[destination |-> A_v4, gateway |-> G_router]>>)}
RequestNames == {IF_eth0, IF_eth2}
WriteOutcomes == {"ok", "open_fails", "write_fails"}

NoNetRequest ==
    [is_json |-> FALSE, interface_name |-> NoName,
     config_data |-> ConfigData(<<>>, <<>>, NoneStr, NoneStr, <<>>, <<>>),
     backup_ok |-> FALSE, outcome |-> "ok"]
NoNetResponse ==
    [op |-> "none", status |-> 0, record |-> NoRecord, records |-> <<>>, error |-> <<>>,
     wrote |-> FALSE, request |-> NoNetRequest]

InitNet ==
    /\ net_files = [f \in Filenames |-> NoFile]
    /\ net_listdir = <<>>
    /\ net_backups = {}
    /\ net_clock = 0
    /\ net_routes = NoActiveRoutes
    /\ net_writes = 0
    /\ net_response = NoNetResponse

\* An administrator writes a file of the config directory.
AdminWriteFile(filename, text, position) ==
    /\ net_response = NoNetResponse
    /\ net_files[filename] # File(text)
    /\ position \in 1..(Len(net_listdir) + 1)
    /\ net_files[filename].exists => position = 1
    /\ net_files' = [net_files EXCEPT ![filename] = File(text)]
    /\ net_listdir' = IF net_files[filename].exists THEN net_listdir
                      ELSE InsertAt(net_listdir, position, filename)
    /\ UNCHANGED <<net_backups, net_clock, net_routes, net_writes, net_response, notNetVars>>

\* The kernel's routing table changes.
KernelRoutesChange(active_routes) ==
    /\ net_response = NoNetResponse
    /\ net_routes # active_routes
    /\ net_routes' = active_routes
    /\ UNCHANGED <<net_files, net_listdir, net_backups, net_clock, net_writes,
                   net_response, notNetVars>>

\* A second of the wall clock passes.
NetTick ==
    /\ net_response = NoNetResponse
    /\ net_clock < MaxNetClock
    /\ net_clock' = net_clock + 1
    /\ UNCHANGED <<net_files, net_listdir, net_backups, net_routes, net_writes,
                   net_response, notNetVars>>

\* POST /api/network/interfaces/<interface_name>: configure_network_interface
\* over configure_interface.  The result of each call the handler makes is
\* bound once, in the order the code makes the calls.
ConfigureNetworkInterface(is_json, interface_name, config_data, backup_ok, outcome, position) ==
    LET request == [is_json |-> is_json, interface_name |-> interface_name,
                    config_data |-> config_data, backup_ok |-> backup_ok,
                    outcome |-> outcome]
        filename == NetworkFileName(interface_name)
        existed == net_files[filename].exists
    IN  /\ net_response = NoNetResponse
        /\ position \in 1..(Len(net_listdir) + 1)
        /\ ~existed => backup_ok
        /\ ~backup_ok => outcome = "ok"
        /\ existed => position = 1
        /\ IF ~is_json
           THEN \* inputs that the call does not read are left at one value
                /\ config_data = NoNetRequest.config_data
                /\ backup_ok /\ outcome = "ok" /\ position = 1
                /\ net_response' = [NoNetResponse EXCEPT
                                       !.op = "configure", !.status = 400,
                                       !.error = <<"Request must be JSON">>,
                                       !.request = request]
                /\ UNCHANGED <<net_files, net_listdir, net_backups, net_writes>>
           ELSE \E named \in {[config_data EXCEPT !.interface_name = interface_name]} :
                \E errors \in {validate_network_config(named)} :
                \E current_interface \in
                      {get_interface(net_files, net_listdir, net_routes, interface_name)} :
                \E new_interface \in {NewRecord(current_interface, interface_name, named)} :
                \E content \in {generate_network_config(new_interface)} :
                \E written \in {write_config_file(net_files, net_listdir, net_backups,
                                                  net_clock, filename, content,
                                                  backup_ok, outcome, position)} :
                \E done \in {configure_interface(net_files, net_listdir, net_backups,
                                                 interface_name, errors, new_interface,
                                                 written)} :
                   /\ ~done.wrote => backup_ok /\ outcome = "ok" /\ position = 1
                   /\ done.wrote => net_writes < MaxNetWrites
                   /\ net_files' = done.files
                   /\ net_listdir' = done.listdir
                   /\ net_backups' = done.backups
                   /\ net_writes' = IF done.wrote THEN net_writes + 1 ELSE net_writes
                   /\ net_response' = [NoNetResponse EXCEPT
                                          !.op = "configure",
                                          !.status = IF done.success THEN 201 ELSE 400,
                                          !.record = done.record,
                                          !.error = done.error,
                                          !.wrote = done.wrote,
                                          !.request = request]
        /\ UNCHANGED <<net_clock, net_routes, notNetVars>>

\* GET /api/network/interfaces/<interface_name>: get_interface_details
GetInterfaceDetails(interface_name) ==
    LET interface == get_interface(net_files, net_listdir, net_routes, interface_name)
    IN  /\ net_response = NoNetResponse
        /\ net_response' =
              [NoNetResponse EXCEPT
                  !.op = "get",
                  !.status = IF interface = NoRecord THEN 404 ELSE 200,
                  !.record = interface,
                  !.error = IF interface = NoRecord
                            THEN <<"Interface ">> \o interface_name \o <<" not found">>
                            ELSE <<>>,
                  !.request = [NoNetRequest EXCEPT !.interface_name = interface_name]]
        /\ UNCHANGED <<net_files, net_listdir, net_backups, net_clock, net_routes,
                       net_writes, notNetVars>>

\* GET /api/network/interfaces: get_interfaces
GetInterfaces ==
    /\ net_response = NoNetResponse
    /\ net_response' =
          [NoNetResponse EXCEPT
              !.op = "list", !.status = 200,
              !.records = get_all_interfaces(net_files, net_listdir, net_routes)]
    /\ UNCHANGED <<net_files, net_listdir, net_backups, net_clock, net_routes,
                   net_writes, notNetVars>>

\* The response is delivered and the next request can be served.
NetRespond ==
    /\ net_response # NoNetResponse
    /\ net_response' = NoNetResponse
    /\ UNCHANGED <<net_files, net_listdir, net_backups, net_clock, net_routes,
                   net_writes, notNetVars>>

NextNet ==
    \/ \E file \in AdminFiles, position \in 1..3 :
          AdminWriteFile(file[1], file[2], position)
    \/ \E active_routes \in SampleActiveRoutes : KernelRoutesChange(active_routes)
    \/ NetTick
    \/ \E is_json \in BOOLEAN, interface_name \in RequestNames,
          config_data \in SampleConfigData \cup {NoNetRequest.config_data}, backup_ok \in BOOLEAN,
          outcome \in WriteOutcomes, position \in 1..3 :
          ConfigureNetworkInterface(is_json, interface_name, config_data,
                                    backup_ok, outcome, position)
    \/ \E interface_name \in {IF_eth0, IF_eth1, IF_eth2} : GetInterfaceDetails(interface_name)
    \/ GetInterfaces
    \/ NetRespond

(***************************************************************************)
(* The history API: routes/ntp_history_routes.py over the queries of       *)
(* NTPDataIngestionService.  Time is in seconds; a day has DaySeconds.     *)
(***************************************************************************)
MaxHistRows == 3        \* rows ever inserted
MaxHistNow == 3         \* last value of the clock
DaySeconds == 2         \* seconds of a day (stands for 86400)
MaxDays == 2            \* largest days value accepted (stands for 365)
DefaultDays == 1        \* days when the body has none (stands for 30)
MaxPageSize == 2        \* largest page_size accepted (stands for 100)
MaxPage == 3            \* largest page number requested

\* The value of the body's "days" key after request.get_json(): a JSON
\* integer, a JSON boolean (a Python bool, which is an int), a JSON number
\* with a fraction, a JSON string, or no such key.
DaysInputs ==
    [kind : {"int"}, v : 0..(MaxDays + 1)]
        \cup [kind : {"bool"}, v : {0, 1}]
        \cup [kind : {"float", "str"}, v : {1}]
        \cup [kind : {"absent"}, v : {DefaultDays}]

\* cleanup_data.get('days', 30)
DaysValue(d) == d.v

\* isinstance(days, int): true of int and of bool
IsInstanceInt(d) == d.kind \in {"int", "bool", "absent"}

\* not (not isinstance(days, int) or days < 1 or days > 365)
DaysValid(d) == ~(~IsInstanceInt(d) \/ DaysValue(d) < 1 \/ DaysValue(d) > MaxDays)

HistIfaces == {"eth0", "eth1"}

\* No request is being answered.  request and db_ok are history: what the
\* request asked and whether the store answered its queries.
NoResponse ==
    [op |-> "none", status |-> 0, deleted_count |-> 0, clients |-> <<>>,
     total_count |-> 0, total_pages |-> 0, has_next |-> FALSE, has_prev |-> FALSE,
     queries |-> 0, request |-> <<>>, db_ok |-> TRUE]

\* The rows cleanup_old_records deletes: last_seen_timestamp < cutoff_date.
OldRows(rows, now, days) ==
    {r \in rows : r.last_seen < now - days * DaySeconds}

InitHistory ==
    /\ hist_rows = {}
    /\ hist_now = 0
    /\ hist_next_id = 1
    /\ hist_response = NoResponse

\* A flush commits a new row: last_seen_timestamp is the time of the flush.
HistInsert(iface) ==
    /\ hist_response = NoResponse
    /\ hist_next_id <= MaxHistRows
    /\ hist_rows' = hist_rows \cup
           {[id |-> hist_next_id, last_seen |-> hist_now, interface_name |-> iface]}
    /\ hist_next_id' = hist_next_id + 1
    /\ UNCHANGED <<hist_now, hist_response, notHistoryVars>>

HistTick ==
    /\ hist_response = NoResponse
    /\ hist_now < MaxHistNow
    /\ hist_now' = hist_now + 1
    /\ UNCHANGED <<hist_rows, hist_next_id, hist_response, notHistoryVars>>

\* POST /api/ntp/history/cleanup with the given days; db_ok is whether the
\* delete and its commit go through.
CleanupRequest(d, db_ok) ==
    /\ hist_response = NoResponse
    /\ IF ~DaysValid(d)
       THEN /\ hist_response' = [NoResponse EXCEPT !.op = "cleanup", !.status = 400,
                   !.request = d, !.db_ok = db_ok]
            /\ hist_rows' = hist_rows
       ELSE LET old == OldRows(hist_rows, hist_now, DaysValue(d))
            IN  IF db_ok
                THEN /\ hist_rows' = hist_rows \ old
                     /\ hist_response' = [NoResponse EXCEPT !.op = "cleanup", !.status = 200,
                            !.deleted_count = Cardinality(old), !.queries = 1,
                            !.request = d, !.db_ok = db_ok]
                ELSE \* rollback, return 0
                     /\ hist_rows' = hist_rows
                     /\ hist_response' = [NoResponse EXCEPT !.op = "cleanup", !.status = 200,
                            !.deleted_count = 0, !.queries = 1,
                            !.request = d, !.db_ok = db_ok]
    /\ UNCHANGED <<hist_now, hist_next_id, notHistoryVars>>

\* The rows a query with the optional interface_name filter matches
\* (interface_name None: no filter).
Matching(rows, interface_name) ==
    IF interface_name = NoneVal THEN rows
    ELSE {r \in rows : r.interface_name = interface_name}

\* The sequences ORDER BY last_seen_timestamp DESC can deliver for a set of
\* rows: rows with equal last_seen come in an order the database picks.
RECURSIVE DescOrders(_)
DescOrders(rows) ==
    IF rows = {} THEN {<<>>}
    ELSE UNION {{<<r>> \o q : q \in DescOrders(rows \ {r})} :
                   r \in {x \in rows : \A y \in rows : x.last_seen >= y.last_seen}}

\* math.ceil(total_count / page_size)
Ceil(a, b) == (a + b - 1) \div b

\* A faulty variant of QueryOffset, kept to show that the property tells them apart: pages counted from 0.
QueryOffsetFromZero(page, page_size) == page * page_size

\* offset = (page - 1) * page_size
QueryOffset(page, page_size) == (page - 1) * page_size

\* get_historical_clients: (client_list, total_count); order is the sequence
\* the ORDER BY delivers, db_ok whether the queries go through.
get_historical_clients(rows, page, page_size, interface_name, order, db_ok) ==
    IF ~db_ok THEN [clients |-> <<>>, total_count |-> 0]
    ELSE LET total_count == Cardinality(Matching(rows, interface_name))
             offset == QueryOffset(page, page_size)
             limit_end == IF offset + page_size < total_count
                          THEN offset + page_size ELSE total_count
         IN  [clients |-> IF page_size > 0
                          THEN SubSeq(order, offset + 1, limit_end)
                          ELSE order,
              total_count |-> total_count]

PageInputs == 0..MaxPage
PageSizeInputs == 0..(MaxPageSize + 1)

\* GET /api/ntp/history/clients; db_ok is whether the queries go through.
ClientsRequest(page, page_size, interface_name, db_ok) ==
    /\ hist_response = NoResponse
    /\ LET request == [page |-> page, page_size |-> page_size,
                       interface_name |-> interface_name]
       IN  IF page < 1 \/ page_size < 1 \/ page_size > MaxPageSize
           THEN hist_response' = [NoResponse EXCEPT !.op = "clients", !.status = 400,
                                     !.request = request, !.db_ok = db_ok]
           ELSE \E order \in (IF db_ok THEN DescOrders(Matching(hist_rows, interface_name))
                              ELSE {<<>>}) :
                   LET res == get_historical_clients(hist_rows, page, page_size,
                                                     interface_name, order, db_ok)
                       total_pages == IF res.total_count > 0
                                      THEN Ceil(res.total_count, page_size) ELSE 0
                   IN  hist_response' =
                           [NoResponse EXCEPT !.op = "clients", !.status = 200,
                               !.clients = res.clients, !.total_count = res.total_count,
                               !.total_pages = total_pages, !.has_next = page < total_pages,
                               !.has_prev = page > 1, !.queries = 1,
                               !.request = request, !.db_ok = db_ok]
    /\ UNCHANGED <<hist_rows, hist_now, hist_next_id, notHistoryVars>>

\* The handler has returned its response.
HistRespond ==
    /\ hist_response # NoResponse
    /\ hist_response' = NoResponse
    /\ UNCHANGED <<hist_rows, hist_now, hist_next_id, notHistoryVars>>

NextHistory ==
    \/ \E iface \in HistIfaces : HistInsert(iface)
    \/ HistTick
    \/ HistRespond
    \/ \E d \in DaysInputs, db_ok \in BOOLEAN : CleanupRequest(d, db_ok)
    \/ \E page \in PageInputs, page_size \in PageSizeInputs,
          interface_name \in HistIfaces \cup {NoneVal}, db_ok \in BOOLEAN :
          ClientsRequest(page, page_size, interface_name, db_ok)

(***************************************************************************)
(* The NTP monitoring process manager behind routes/ntp_monitor_routes.py. *)
(* The routes are those of the source; the manager they call keeps one     *)
(* ntp_<iface>.pid and one ntp_<iface>.log per interface in the PID        *)
(* directory and asks the OS whether the recorded process exists.          *)
(***************************************************************************)
MaxPid == 3             \* process ids the OS hands out in one behaviour
MaxPort == 65535
DefaultPort == 123

PmIfaces == {"eth0", "eth1"}
NoPid == 0
PortInputs == {0, DefaultPort, MaxPort + 1}
TimeoutInputs == {0, 2}

NoPmResponse ==
    [op |-> "none", status |-> 0, success |-> FALSE, interface |-> "", cleaned_count |-> 0]

\* The keys of health_status['services'], in the order the dict is built.
ServiceNames == <<"network", "monitor", "ntp_monitor", "ntp_history", "ntp_ingestion">>
ServiceSet == {ServiceNames[k] : k \in 1..Len(ServiceNames)}
MonitorProbes == {"ok", "raises"}
IngestionStates == {"none", "running", "stopped", "raises"}
DatabaseProbes == {"ok", "raises"}
NoHealthRequest ==
    [monitor_probe |-> "ok", ingestion |-> "none", database |-> "ok", handler_raises |-> FALSE]
NoHealthResponse ==
    [status_code |-> 0, status |-> "", services |-> [k \in ServiceSet |-> ""],
     message |-> [text |-> "", names |-> <<>>],
     total_interfaces |-> 0, running_monitors |-> 0, request |-> NoHealthRequest]

\* No request is being answered.
MonitorIdle == pm_response = NoPmResponse /\ health_response = NoHealthResponse

\* isMonitoring(iface): the PID file exists and the process it names exists
is_monitoring(pid_files, alive, iface) ==
    pid_files[iface] # NoPid /\ pid_files[iface] \in alive

\* The interfaces whose PID file names a process that is gone.
StalePidFiles(pid_files, alive) ==
    {iface \in PmIfaces : pid_files[iface] # NoPid /\ pid_files[iface] \notin alive}

\* A faulty variant of cleanup_stale_pids, kept to show that the property
\* tells them apart: it removes every PID file.
CleanupEveryPidFile(pid_files, alive) ==
    [pid_files |-> [iface \in PmIfaces |-> NoPid],
     cleaned_count |-> Cardinality({iface \in PmIfaces : pid_files[iface] # NoPid})]

\* cleanupStale: removes the PID files of dead processes and counts them
cleanup_stale_pids(pid_files, alive) ==
    [pid_files |-> [iface \in PmIfaces |->
                       IF iface \in StalePidFiles(pid_files, alive) THEN NoPid
                       ELSE pid_files[iface]],
     cleaned_count |-> Cardinality(StalePidFiles(pid_files, alive))]

\* start(iface, ...) after the route has checked port and timeout: fails if
\* the interface is already monitored or the OS does not recognize it; else
\* spawns the worker, redirects its output to the log file, writes its pid
\* to the PID file and re-verifies with isMonitoring after one second.
\* spawn_ok: the worker process is created; survives: it is still there at
\* the re-verification.
start_monitoring(pid_files, log_files, alive, next_pid, iface, os_has_iface, spawn_ok, survives) ==
    IF is_monitoring(pid_files, alive, iface) \/ ~os_has_iface \/ ~spawn_ok
    THEN [success |-> FALSE, spawned |-> FALSE, pid_files |-> pid_files,
          log_files |-> log_files, alive |-> alive, next_pid |-> next_pid]
    ELSE [success |-> survives, spawned |-> TRUE,
          pid_files |-> [pid_files EXCEPT ![iface] = next_pid],
          log_files |-> log_files \cup {iface},
          alive |-> IF survives THEN alive \cup {next_pid} ELSE alive,
          next_pid |-> next_pid + 1]

\* stop(iface): fails if not monitoring; else the process is terminated,
\* killed if it does not exit, and the PID file is removed.
stop_monitoring(pid_files, alive, iface) ==
    IF ~is_monitoring(pid_files, alive, iface)
    THEN [success |-> FALSE, pid_files |-> pid_files, alive |-> alive]
    ELSE [success |-> TRUE, pid_files |-> [pid_files EXCEPT ![iface] = NoPid],
          alive |-> alive \ {pid_files[iface]}]

InitMonitor ==
    /\ pm_pid_files = [iface \in PmIfaces |-> NoPid]
    /\ pm_log_files = {}
    /\ pm_alive = {}
    /\ pm_next_pid = 1
    /\ pm_response = NoPmResponse
    /\ health_response = NoHealthResponse

\* POST /api/ntp/interfaces/<interface_name>/start: start_interface_monitoring.
\* os_has_iface, spawn_ok and survives are what start_monitoring meets.
StartInterfaceMonitoring(iface, port, timeout, os_has_iface, spawn_ok, survives) ==
    LET valid == port > 0 /\ port <= MaxPort /\ timeout > 0
        monitored == is_monitoring(pm_pid_files, pm_alive, iface)
        respond(status, success) ==
            [NoPmResponse EXCEPT !.op = "start", !.status = status, !.success = success,
                                 !.interface = iface]
    IN  /\ MonitorIdle
        \* inputs that the call does not read are left at one value
        /\ (~valid \/ monitored) => os_has_iface /\ spawn_ok /\ survives
        /\ ~os_has_iface => spawn_ok /\ survives
        /\ ~spawn_ok => survives
        /\ IF ~valid
           THEN /\ pm_response' = respond(400, FALSE)
                /\ UNCHANGED <<pm_pid_files, pm_log_files, pm_alive, pm_next_pid>>
           ELSE \E started \in {start_monitoring(pm_pid_files, pm_log_files, pm_alive,
                                    pm_next_pid, iface, os_has_iface, spawn_ok, survives)} :
                /\ started.spawned => pm_next_pid <= MaxPid
                /\ pm_pid_files' = started.pid_files
                /\ pm_log_files' = started.log_files
                /\ pm_alive' = started.alive
                /\ pm_next_pid' = started.next_pid
                /\ pm_response' = IF started.success THEN respond(201, TRUE)
                                  ELSE respond(400, FALSE)
        /\ UNCHANGED <<health_response, notMonitorVars>>

\* POST /api/ntp/interfaces/<interface_name>/stop: stop_interface_monitoring
StopInterfaceMonitoring(iface) ==
    \E stopped \in {stop_monitoring(pm_pid_files, pm_alive, iface)} :
        /\ MonitorIdle
        /\ pm_pid_files' = stopped.pid_files
        /\ pm_alive' = stopped.alive
        /\ pm_response' = [NoPmResponse EXCEPT
                              !.op = "stop",
                              !.status = IF stopped.success THEN 200 ELSE 400,
                              !.success = stopped.success, !.interface = iface]
        /\ UNCHANGED <<pm_log_files, pm_next_pid, health_response, notMonitorVars>>

\* POST /api/ntp/cleanup: cleanup_stale_processes over cleanupStale
CleanupStaleProcesses ==
    LET cleaned == cleanup_stale_pids(pm_pid_files, pm_alive)
    IN  /\ MonitorIdle
        /\ pm_pid_files' = cleaned.pid_files
        /\ pm_response' = [NoPmResponse EXCEPT !.op = "cleanup", !.status = 200,
                                               !.success = TRUE,
                                               !.cleaned_count = cleaned.cleaned_count]
        /\ UNCHANGED <<pm_log_files, pm_alive, pm_next_pid, health_response, notMonitorVars>>

\* A worker process dies on its own.
WorkerDies(pid) ==
    /\ MonitorIdle
    /\ pid \in pm_alive
    /\ pm_alive' = pm_alive \ {pid}
    /\ UNCHANGED <<pm_pid_files, pm_log_files, pm_next_pid, pm_response, health_response, notMonitorVars>>

\* The response is delivered and the next request can be served.
PmRespond ==
    /\ pm_response # NoPmResponse
    /\ pm_response' = NoPmResponse
    /\ UNCHANGED <<pm_pid_files, pm_log_files, pm_alive, pm_next_pid, health_response, notMonitorVars>>

\* listAll: one status per PID file present; the status of an interface
\* whose process has vanished removes its PID file.
list_all_monitoring_status(pid_files, alive) ==
    [total_interfaces |-> Cardinality({iface \in PmIfaces : pid_files[iface] # NoPid}),
     running_monitors |->
         Cardinality({iface \in PmIfaces : is_monitoring(pid_files, alive, iface)}),
     pid_files |-> cleanup_stale_pids(pid_files, alive).pid_files]

\* health_status['services'] after the three probes
ProbedServices(monitor_probe, ingestion, database) ==
    [k \in ServiceSet |->
        CASE k = "ntp_monitor" -> IF monitor_probe = "raises" THEN "degraded" ELSE "healthy"
          [] k = "ntp_ingestion" ->
                CASE ingestion = "none" -> "not_started"
                  [] ingestion = "stopped" -> "stopped"
                  [] ingestion = "raises" -> "degraded"
                  [] OTHER -> "healthy"
          [] k = "ntp_history" -> IF database = "raises" THEN "degraded" ELSE "healthy"
          [] OTHER -> "healthy"]

\* A faulty variant of degraded_services, kept to show that the property
\* tells them apart: it lists only the services marked 'degraded'.
OnlyDegradedServices(services) ==
    SelectSeq(ServiceNames, LAMBDA k : services[k] = "degraded")

\* degraded_services = [k for k, v in services.items() if v in [...]]
degraded_services(services) ==
    SelectSeq(ServiceNames, LAMBDA k : services[k] \in {"degraded", "stopped", "not_started"})

\* GET /api/health: health_check.  Each probe runs in its own try block;
\* handler_raises: a statement outside those blocks raises, so the
\* handler's outer except clause answers.
HealthCheck(monitor_probe, ingestion, database, handler_raises) ==
    LET request == [monitor_probe |-> monitor_probe, ingestion |-> ingestion,
                    database |-> database, handler_raises |-> handler_raises]
        listed == list_all_monitoring_status(pm_pid_files, pm_alive)
        services == ProbedServices(monitor_probe, ingestion, database)
        names == degraded_services(services)
    IN  /\ MonitorIdle
        /\ pm_pid_files' = IF monitor_probe = "ok" THEN listed.pid_files ELSE pm_pid_files
        /\ health_response' =
              IF handler_raises
              THEN [NoHealthResponse EXCEPT
                       !.status_code = 503, !.status = "unhealthy",
                       !.services = [k \in ServiceSet |-> "listed"],
                       !.message = [text |-> "Health check error", names |-> <<>>],
                       !.request = request]
              ELSE [NoHealthResponse EXCEPT
                       !.status_code = 200,
                       !.status = IF names # <<>> THEN "degraded" ELSE "healthy",
                       !.services = services,
                       !.message = IF names # <<>>
                                   THEN [text |-> "Some services have issues", names |-> names]
                                   ELSE [text |-> "All services are running", names |-> <<>>],
                       !.total_interfaces =
                           IF monitor_probe = "ok" THEN listed.total_interfaces ELSE 0,
                       !.running_monitors =
                           IF monitor_probe = "ok" THEN listed.running_monitors ELSE 0,
                       !.request = request]
        /\ UNCHANGED <<pm_log_files, pm_alive, pm_next_pid, pm_response, notMonitorVars>>

\* The health response is delivered.
HealthRespond ==
    /\ health_response # NoHealthResponse
    /\ health_response' = NoHealthResponse
    /\ UNCHANGED <<pm_pid_files, pm_log_files, pm_alive, pm_next_pid, pm_response,
                   notMonitorVars>>

NextMonitor ==
    \/ \E iface \in PmIfaces, port \in PortInputs, timeout \in TimeoutInputs,
          os_has_iface \in BOOLEAN, spawn_ok \in BOOLEAN, survives \in BOOLEAN :
          StartInterfaceMonitoring(iface, port, timeout, os_has_iface, spawn_ok, survives)
    \/ \E iface \in PmIfaces : StopInterfaceMonitoring(iface)
    \/ CleanupStaleProcesses
    \/ \E pid \in 1..MaxPid : WorkerDies(pid)
    \/ PmRespond
    \/ \E monitor_probe \in MonitorProbes, ingestion \in IngestionStates,
          database \in DatabaseProbes, handler_raises \in BOOLEAN :
          HealthCheck(monitor_probe, ingestion, database, handler_raises)
    \/ HealthRespond

(***************************************************************************)
(* The standalone UDP monitor, src/services/ntp_monitor_service.py.        *)
(* The main thread runs main() and start_monitoring's receive loop; the    *)
(* daemon thread runs _database_worker; signal_handler runs on the main    *)
(* thread, between two of its steps, and ends in sys.exit(0), whose        *)
(* SystemExit unwinds the interrupted frames through their finally blocks. *)
(* cache_lock is a threading.Lock, which is not reentrant.                 *)
(***************************************************************************)
MaxUdpPackets == 2
MaxSignals == 1
UdpClients == {"10.0.0.1", "10.0.0.2"}
UdpRecords == 1..MaxUdpPackets
UdpThreads == {"main", "worker"}
EmptyCache == [client_ip \in UdpClients |-> 0]
NoUdpCopy == [records |-> <<>>, stats |-> EmptyCache]
StopPhases == {"handler", "finally", "main_finally"}

\* _update_client_stats inside the lock: the entry is created when absent
\* and its request_count incremented.
update_client_stats(client_cache, client_ip) ==
    [client_cache EXCEPT ![client_ip] = client_cache[client_ip] + 1]

\* The locked section of _flush_to_database without pending_records.clear().
FlushWithoutClear(pending_records, client_cache) ==
    IF pending_records = <<>> /\ client_cache = EmptyCache
    THEN [returned |-> TRUE, copy |-> NoUdpCopy, pending_records |-> pending_records]
    ELSE [returned |-> FALSE,
          copy |-> [records |-> pending_records, stats |-> client_cache],
          pending_records |-> pending_records]
\* The locked section of _flush_to_database: returns when there is nothing
\* pending and nothing cached; else copies the pending list, clears it and
\* copies the statistics of every cached client.
flush_locked(pending_records, client_cache) ==
    IF pending_records = <<>> /\ client_cache = EmptyCache
    THEN [returned |-> TRUE, copy |-> NoUdpCopy, pending_records |-> pending_records]
    ELSE [returned |-> FALSE,
          copy |-> [records |-> pending_records, stats |-> client_cache],
          pending_records |-> <<>>]

\* How often a record number occurs in a list of record numbers.
CountIn(records, record) == Cardinality({k \in 1..Len(records) : records[k] = record})

\* _write_to_database: inserts one ntp_records row per record and replaces
\* the client_stats row of every client in stats, then commits; a failure
\* rolls both back.
write_to_database(db, records_to_write, stats_to_write, commit_ok) ==
    IF commit_ok
    THEN [ntp_records |-> [record \in UdpRecords |->
                              db.ntp_records[record] + CountIn(records_to_write, record)],
          client_stats |-> [client_ip \in UdpClients |->
                              IF stats_to_write[client_ip] > 0
                              THEN stats_to_write[client_ip]
                              ELSE db.client_stats[client_ip]]]
    ELSE db

\* Where the main thread goes when a stop_monitoring call made in `phase`
\* is over: the handler's sys.exit(0) unwinds the interrupted phase `base`.
AfterStop(phase, base) ==
    LET left == IF phase = "handler" THEN base ELSE phase
    IN  IF left = "loop" THEN [phase |-> "finally", step |-> "stop"]
        ELSE IF left \in {"init", "finally"} THEN [phase |-> "main_finally", step |-> "stop"]
        ELSE [phase |-> "exited", step |-> "none"]

InitUdp ==
    /\ udp_main = [phase |-> "init", step |-> "none"]
    /\ udp_base = "init"
    /\ udp_worker = "unstarted"
    /\ udp_lock = "free"
    /\ udp_running = FALSE
    /\ udp_signals = 0
    /\ udp_received = <<>>
    /\ udp_client_cache = EmptyCache
    /\ udp_pending_records = <<>>
    /\ udp_local = [thread \in UdpThreads |-> NoUdpCopy]
    /\ udp_copied = [record \in UdpRecords |-> <<>>]
    /\ udp_handed = [record \in UdpRecords |-> 0]
    /\ udp_db = [ntp_records |-> [record \in UdpRecords |-> 0],
                 client_stats |-> EmptyCache]
    /\ udp_write_failed = FALSE

\* start_monitoring up to the loop: sets running, starts the worker thread
\* and binds; a bind that raises goes to the finally block.
UdpStartMonitoring(bind_ok) ==
    /\ udp_main.phase = "init"
    /\ udp_running' = TRUE
    /\ udp_worker' = "test"
    /\ udp_main' = IF bind_ok THEN [phase |-> "loop", step |-> "recv"]
                   ELSE [phase |-> "finally", step |-> "stop"]
    /\ UNCHANGED <<udp_base, udp_lock, udp_signals, udp_received, udp_client_cache,
                   udp_pending_records, udp_local, udp_copied, udp_handed, udp_db,
                   udp_write_failed, notUdpVars>>

\* `while self.running`, recvfrom and the start of _process_ntp_request: a
\* datagram _parse_ntp_packet rejects is dropped.
UdpReceive(client_ip, parses) ==
    /\ udp_main = [phase |-> "loop", step |-> "recv"]
    /\ udp_running
    /\ Len(udp_received) < MaxUdpPackets
    /\ IF parses
       THEN /\ udp_received' = Append(udp_received, client_ip)
            /\ udp_main' = [udp_main EXCEPT !.step = "stats_wait"]
       ELSE UNCHANGED <<udp_received, udp_main>>
    /\ UNCHANGED <<udp_base, udp_worker, udp_lock, udp_running, udp_signals,
                   udp_client_cache, udp_pending_records, udp_local, udp_copied,
                   udp_handed, udp_db, udp_write_failed, notUdpVars>>

\* The main thread enters `with self.cache_lock`, in _update_client_stats,
\* in _process_ntp_request or in _flush_to_database.
UdpMainAcquire ==
    /\ udp_main.step \in {"stats_wait", "append_wait", "flush_wait"}
    /\ udp_lock = "free"
    /\ udp_lock' = "main"
    /\ udp_main' = [udp_main EXCEPT !.step =
                       IF udp_main.step = "stats_wait" THEN "stats"
                       ELSE IF udp_main.step = "append_wait" THEN "append"
                       ELSE "locked"]
    /\ UNCHANGED <<udp_base, udp_worker, udp_running, udp_signals, udp_received,
                   udp_client_cache, udp_pending_records, udp_local, udp_copied,
                   udp_handed, udp_db, udp_write_failed, notUdpVars>>

\* The body of _update_client_stats, and the release of the lock.
UdpUpdateClientStats ==
    /\ udp_main = [phase |-> "loop", step |-> "stats"]
    /\ udp_client_cache' =
           update_client_stats(udp_client_cache, udp_received[Len(udp_received)])
    /\ udp_lock' = "free"
    /\ udp_main' = [udp_main EXCEPT !.step = "append_wait"]
    /\ UNCHANGED <<udp_base, udp_worker, udp_running, udp_signals, udp_received,
                   udp_pending_records, udp_local, udp_copied, udp_handed, udp_db,
                   udp_write_failed, notUdpVars>>

\* self.pending_records.append(record), and the release of the lock.
UdpAppendRecord ==
    /\ udp_main = [phase |-> "loop", step |-> "append"]
    /\ udp_pending_records' = Append(udp_pending_records, Len(udp_received))
    /\ udp_lock' = "free"
    /\ udp_main' = [udp_main EXCEPT !.step = "recv"]
    /\ UNCHANGED <<udp_base, udp_worker, udp_running, udp_signals, udp_received,
                   udp_client_cache, udp_local, udp_copied, udp_handed, udp_db,
                   udp_write_failed, notUdpVars>>

\* A termination signal: signal_handler starts on the main thread, on top of
\* whatever it was doing; the interrupted frame is never resumed, because
\* the handler ends in sys.exit(0).
UdpSignal ==
    /\ udp_signals < MaxSignals
    /\ udp_main.phase # "exited"
    /\ udp_signals' = udp_signals + 1
    /\ udp_base' = IF udp_main.phase = "handler" THEN udp_base ELSE udp_main.phase
    /\ udp_main' = [phase |-> "handler", step |-> "stop"]
    /\ udp_local' = [udp_local EXCEPT !["main"] = NoUdpCopy]
    /\ UNCHANGED <<udp_worker, udp_lock, udp_running, udp_received, udp_client_cache,
                   udp_pending_records, udp_copied, udp_handed, udp_db,
                   udp_write_failed, notUdpVars>>

\* stop_monitoring, first statement: self.running = False.
UdpStopMonitoring ==
    /\ udp_main.phase \in StopPhases
    /\ udp_main.step = "stop"
    /\ udp_running' = FALSE
    /\ udp_main' = [udp_main EXCEPT !.step = "flush_wait"]
    /\ UNCHANGED <<udp_base, udp_worker, udp_lock, udp_signals, udp_received,
                   udp_client_cache, udp_pending_records, udp_local, udp_copied,
                   udp_handed, udp_db, udp_write_failed, notUdpVars>>

\* The locked section of _flush_to_database run by `thread`, and the
\* release of the lock.
UdpFlushLocked(thread) ==
    /\ udp_lock = thread
    /\ IF thread = "main" THEN udp_main.step = "locked" ELSE udp_worker = "locked"
    /\ \E flush \in {flush_locked(udp_pending_records, udp_client_cache)} :
          /\ udp_pending_records' = flush.pending_records
          /\ udp_local' = [udp_local EXCEPT ![thread] = flush.copy]
          /\ udp_copied' = [record \in UdpRecords |->
                               IF CountIn(flush.copy.records, record) > 0
                               THEN Append(udp_copied[record], thread)
                               ELSE udp_copied[record]]
          /\ IF thread = "main"
             THEN /\ udp_main' = [udp_main EXCEPT !.step =
                                     IF flush.returned THEN "join" ELSE "write"]
                  /\ udp_worker' = udp_worker
             ELSE /\ udp_worker' = IF flush.returned THEN "test" ELSE "write"
                  /\ udp_main' = udp_main
    /\ udp_lock' = "free"
    /\ UNCHANGED <<udp_base, udp_running, udp_signals, udp_received, udp_client_cache,
                   udp_handed, udp_db, udp_write_failed, notUdpVars>>

\* _write_to_database called by `thread` with the copies it took.
UdpWriteToDatabase(thread, commit_ok) ==
    /\ IF thread = "main" THEN udp_main.step = "write" ELSE udp_worker = "write"
    /\ udp_db' = write_to_database(udp_db, udp_local[thread].records,
                                   udp_local[thread].stats, commit_ok)
    /\ udp_handed' = [record \in UdpRecords |->
                         udp_handed[record] + CountIn(udp_local[thread].records, record)]
    /\ udp_write_failed' = (udp_write_failed \/ ~commit_ok)
    /\ udp_local' = [udp_local EXCEPT ![thread] = NoUdpCopy]
    /\ IF thread = "main"
       THEN /\ udp_main' = [udp_main EXCEPT !.step = "join"]
            /\ udp_worker' = udp_worker
       ELSE /\ udp_worker' = "test"
            /\ udp_main' = udp_main
    /\ UNCHANGED <<udp_base, udp_lock, udp_running, udp_signals, udp_received,
                   udp_client_cache, udp_pending_records, udp_copied, notUdpVars>>

\* The end of stop_monitoring: db_thread.join(timeout=5) returns, joined or
\* timed out; then the handler's sys.exit(0), the next finally block or the
\* end of the process, with which the daemon thread ends.
UdpStopReturns ==
    /\ udp_main.phase \in StopPhases
    /\ udp_main.step = "join"
    /\ udp_main' = AfterStop(udp_main.phase, udp_base)
    /\ UNCHANGED <<udp_base, udp_worker, udp_lock, udp_running, udp_signals,
                   udp_received, udp_client_cache, udp_pending_records, udp_local,
                   udp_copied, udp_handed, udp_db, udp_write_failed, notUdpVars>>

\* _database_worker: `while self.running`.
UdpWorkerTest ==
    /\ udp_main.phase # "exited"
    /\ udp_worker = "test"
    /\ udp_worker' = IF udp_running THEN "sleep" ELSE "done"
    /\ UNCHANGED <<udp_main, udp_base, udp_lock, udp_running, udp_signals,
                   udp_received, udp_client_cache, udp_pending_records, udp_local,
                   udp_copied, udp_handed, udp_db, udp_write_failed, notUdpVars>>

\* _database_worker: time.sleep(flush_interval) is over and the worker
\* enters `with self.cache_lock` of _flush_to_database.
UdpWorkerAcquire ==
    /\ udp_main.phase # "exited"
    /\ udp_worker = "sleep"
    /\ udp_lock = "free"
    /\ udp_lock' = "worker"
    /\ udp_worker' = "locked"
    /\ UNCHANGED <<udp_main, udp_base, udp_running, udp_signals, udp_received,
                   udp_client_cache, udp_pending_records, udp_local, udp_copied,
                   udp_handed, udp_db, udp_write_failed, notUdpVars>>

\* The steps of the main thread and of the worker thread.
UdpMainStep ==
    \/ \E bind_ok \in BOOLEAN : UdpStartMonitoring(bind_ok)
    \/ UdpMainAcquire
    \/ UdpUpdateClientStats
    \/ UdpAppendRecord
    \/ UdpStopMonitoring
    \/ UdpFlushLocked("main")
    \/ \E commit_ok \in BOOLEAN : UdpWriteToDatabase("main", commit_ok)
    \/ UdpStopReturns
UdpWorkerStep ==
    /\ udp_main.phase # "exited"
    /\ \/ UdpWorkerTest
       \/ UdpWorkerAcquire
       \/ UdpFlushLocked("worker")
       \/ \E commit_ok \in BOOLEAN : UdpWriteToDatabase("worker", commit_ok)

NextUdp ==
    \/ UdpMainStep
    \/ UdpWorkerStep
    \/ \E client_ip \in UdpClients, parses \in BOOLEAN : UdpReceive(client_ip, parses)
    \/ UdpSignal

Init ==
    /\ InitStore
    /\ InitIngest
    /\ InitWorker
    /\ InitHistory
    /\ InitNet
    /\ InitCodec
    /\ InitMonitor
    /\ InitUdp

\* The caller of _process_batch takes one item from the queue into batch_data.
SubmitSession(item) ==
    /\ lastFlush.caller # "stop"
    /\ Len(pending_batch) < MaxBatch
    /\ stats.total_received < MaxSessions
    /\ pending_batch' = Append(pending_batch, item)
    /\ stats' = [stats EXCEPT !.total_received = stats.total_received + 1]
    /\ UNCHANGED <<table, ingested, lastFlush, ingestVars, workerVars, apiVars>>

\* _process_batch(batch_data), then batch_data.clear() in the caller.
ProcessBatch(commit_ok, pick, now) ==
    /\ pending_batch # <<>>
    /\ LET tx == ProcessRecords(TxInit(table), pending_batch, now, pick)
       IN  IF commit_ok
           THEN /\ table' = Commit(tx)
                /\ stats' = [stats EXCEPT
                       !.total_processed = stats.total_processed + tx.processed,
                       !.processing_errors = stats.processing_errors + tx.errors,
                       !.total_inserted = stats.total_inserted + tx.inserted,
                       !.total_updated = stats.total_updated + tx.updated]
                /\ ingested' = [ip \in IPs |-> ingested[ip] + ValidCount(pending_batch, ip)]
           ELSE \* commit raises: rollback
                /\ table' = table
                /\ stats' = [stats EXCEPT
                       !.total_processed = stats.total_processed + tx.processed,
                       !.processing_errors = stats.processing_errors + tx.errors + 1]
                /\ ingested' = ingested
    /\ lastFlush' = [caller |-> "worker",
                     outcome |-> IF commit_ok THEN "committed" ELSE "rolled_back",
                     size |-> Len(pending_batch),
                     skipped |-> Cardinality({k \in 1..Len(pending_batch) :
                                                ~IsValidSession(pending_batch[k])})]
    /\ pending_batch' = <<>>
    /\ UNCHANGED <<ingestVars, workerVars, apiVars>>

\* stop() on the running service, once the worker has ended with its batch
\* flushed: _process_remaining_data() takes the items left in the queue with
\* get_nowait and hands them to _process_batch.  The service is not started
\* again.
ProcessRemainingData(remaining, commit_ok, pick, now) ==
    /\ lastFlush.caller # "stop"
    /\ pending_batch = <<>>
    /\ stats.total_received + Len(remaining) <= MaxSessions
    /\ \E tx \in {ProcessRecords(TxInit(table), remaining, now, pick)} :
          /\ table' = IF commit_ok THEN Commit(tx) ELSE table
          /\ stats' = IF commit_ok
                      THEN [stats EXCEPT
                               !.total_processed = stats.total_processed + tx.processed,
                               !.processing_errors = stats.processing_errors + tx.errors,
                               !.total_inserted = stats.total_inserted + tx.inserted,
                               !.total_updated = stats.total_updated + tx.updated]
                      ELSE [stats EXCEPT
                               !.total_processed = stats.total_processed + tx.processed,
                               !.processing_errors = stats.processing_errors + tx.errors + 1]
          /\ ingested' = IF commit_ok
                         THEN [ip \in IPs |-> ingested[ip] + ValidCount(remaining, ip)]
                         ELSE ingested
    /\ lastFlush' = [caller |-> "stop",
                     outcome |-> IF commit_ok THEN "committed" ELSE "rolled_back",
                     size |-> Len(remaining),
                     skipped |-> Cardinality({k \in 1..Len(remaining) :
                                                ~IsValidSession(remaining[k])})]
    /\ UNCHANGED <<pending_batch, ingestVars, workerVars, apiVars>>

NextStore ==
    \/ \E item \in SessionItems : SubmitSession(item)
    \/ \E commit_ok \in BOOLEAN, pick \in Picks, now \in ClockValues :
          ProcessBatch(commit_ok, pick, now)
    \/ \E remaining \in SeqsUpTo(SessionItems, MaxRemaining) \ {<<>>}, commit_ok \in BOOLEAN,
          pick \in Picks, now \in ClockValues :
          ProcessRemainingData(remaining, commit_ok, pick, now)

SpecStore == Init /\ [][NextStore]_vars

(***************************************************************************)
(* Claims about the history store.                                         *)
(***************************************************************************)
RowsOf(rows, ip) == {i \in 1..Len(rows) : rows[i].client_ip = ip}

RECURSIVE SumCounts(_, _)
SumCounts(rows, S) ==
    IF S = {} THEN 0
    ELSE LET i == CHOOSE x \in S : TRUE
         IN  rows[i].session_count + SumCounts(rows, S \ {i})

\* The sessions of a client_ip that all its rows together have counted.
SessionSum(rows, ip) == SumCounts(rows, RowsOf(rows, ip))

\* C1: after any sequence of flushes the table holds at most one row per
\* client_ip, whether the sessions of that IP arrive in the same batch or in
\* different batches, and whatever their interface_name.
C1_OneRowPerClientIp ==
    \A i, j \in 1..Len(table) :
        table[i].client_ip = table[j].client_ip => i = j

\* C2: the session_count of a client_ip's row is the number of valid sessions
\* ingested for that IP so far (1 after the insert, +1 for each later session),
\* and every insert counted by total_inserted is one row.
C2_SessionCountIsIngested ==
    /\ \A i \in 1..Len(table) :
          table[i].session_count = ingested[table[i].client_ip]
    /\ stats.total_inserted = Len(table)

\* C8: in a flush that commits, the records that fail or lack a required key
\* are skipped and every valid record of the batch is persisted (its client_ip's
\* rows count one more session for it); in a flush whose commit fails the table
\* is left as it was before the batch.
C8_BatchIsolation ==
    [][\A commit_ok \in BOOLEAN, pick \in Picks, now \in ClockValues :
          ProcessBatch(commit_ok, pick, now) =>
             IF commit_ok
             THEN \A ip \in IPs :
                     /\ SessionSum(table', ip) =
                            SessionSum(table, ip) + ValidCount(pending_batch, ip)
                     /\ ValidCount(pending_batch, ip) > 0 => RowsOf(table', ip) # {}
             ELSE table' = table]_vars

\* C8 witness: a committed flush of a batch that held a skipped record next to a
\* valid one, whose row is in the table.
C8_Witness ==
    /\ lastFlush.outcome = "committed"
    /\ lastFlush.skipped >= 1
    /\ lastFlush.size > lastFlush.skipped
    /\ Len(table) >= 1

\* The last valid session of a batch for a client_ip.
LastValidIndex(batch, ip) ==
    SetMax({k \in 1..Len(batch) : IsValidSession(batch[k]) /\ batch[k].client_ip = ip})

\* C10: when a committed flush carries a session for a client_ip that already
\* has a row, a row of that client_ip afterwards has the interface_name of the
\* newest session (last write wins), and a key the session does not supply
\* keeps its prior value.
C10_LastWriteWinsInterface ==
    [][\A pick \in Picks, now \in ClockValues :
          ProcessBatch(TRUE, pick, now) =>
             \A ip \in IPs :
                (RowsOf(table, ip) # {} /\ ValidCount(pending_batch, ip) > 0) =>
                   LET sd == pending_batch[LastValidIndex(pending_batch, ip)]
                   IN  /\ \E i \in RowsOf(table', ip) :
                              table'[i].interface_name = sd.interface_name
                       /\ (ValidCount(pending_batch, ip) = 1 /\ sd.stratum = AbsentNum) =>
                              \A i \in RowsOf(table, ip) :
                                  table'[i].stratum = table[i].stratum]_vars

(***************************************************************************)
(* The threads of the ingestion service.                                   *)
(*                                                                         *)
(* Items are numbered as they are decoded; what a flush does with them is  *)
(* ProcessBatch above.  Threads may be delayed at any point, so a wait     *)
(* with a timeout may end by its timeout whenever the time has passed.     *)
(***************************************************************************)
SeqToSet(q) == {q[k] : k \in 1..Len(q)}

Min(a, b) == IF a < b THEN a ELSE b

\* A faulty variant of QueuePut, kept to show that the property tells them apart: a queue without maxsize.
QueuePutUnbounded(q, item) == [ok |-> TRUE, queue |-> Append(q, item)]

\* queue.Queue.put(item, block=False): [ok, queue]; not ok is queue.Full.
QueuePut(q, item) ==
    IF Len(q) >= QueueMaxsize
    THEN [ok |-> FALSE, queue |-> q]
    ELSE [ok |-> TRUE, queue |-> Append(q, item)]

\* A faulty variant of ShouldProcess, kept to show that the property tells them apart: the size test is > instead of >=.
ShouldProcessStrict(batch, age) ==
    \/ Len(batch) > batch_size
    \/ (batch # <<>> /\ age >= batch_interval)

\* should_process of _data_processing_loop.
ShouldProcess(batch, age) ==
    \/ Len(batch) >= batch_size
    \/ (batch # <<>> /\ age >= batch_interval)

\* _process_batch is entered with these items.
PassToFlush(batch) ==
    [i \in Items |-> IF i \in SeqToSet(batch) THEN flushed[i] + 1 ELSE flushed[i]]

\* ---- start() ----

\* start() up to the start of the two threads; self.running is still False.
StartThreads ==
    /\ start_pc = "idle"
    /\ ~running
    /\ tcp_server' = "serving"
    /\ worker_pc' = "loop"
    /\ last_batch_age' = 0
    /\ start_pc' = "threads_started"
    /\ UNCHANGED <<apiVars, workerVars, storeOnlyVars, stats, running, data_queue, conn, next_item, batch_data, current_age,
                   get_wait, stop_pc, join_wait, remaining_data, flushed,
                   accepted_at_stop>>

\* self.running = True; return True
StartSetRunning ==
    /\ start_pc = "threads_started"
    /\ running' = TRUE
    /\ start_pc' = "returned"
    /\ UNCHANGED <<apiVars, workerVars, storeOnlyVars, stats, tcp_server, data_queue, conn, next_item, worker_pc, batch_data,
                   last_batch_age, current_age, get_wait, stop_pc, join_wait,
                   remaining_data, flushed, accepted_at_stop>>

\* The server cannot be created (the port is taken): stop() returns at once as
\* running is False, and start() returns False.
StartFails ==
    /\ start_pc = "idle"
    /\ ~running
    /\ start_pc' = "returned"
    /\ UNCHANGED <<apiVars, workerVars, storeOnlyVars, stats, running, tcp_server, data_queue, conn, next_item, worker_pc,
                   batch_data, last_batch_age, current_age, get_wait, stop_pc, join_wait,
                   remaining_data, flushed, accepted_at_stop>>

\* ---- NTPDataRequestHandler.handle, one thread per connection ----

Accept(h) ==
    /\ tcp_server = "serving"
    /\ conn[h] = "none"
    /\ conn' = [conn EXCEPT ![h] = "open"]
    /\ UNCHANGED <<apiVars, workerVars, storeOnlyVars, stats, running, tcp_server, data_queue, next_item, start_pc, worker_pc,
                   batch_data, last_batch_age, current_age, get_wait, stop_pc, join_wait,
                   remaining_data, flushed, accepted_at_stop>>

\* One pass of the while loop for a line that was read.
HandleLine(h, kind) ==
    /\ conn[h] = "open"
    /\ IF kind = "json"
       THEN /\ next_item <= MaxItems
            /\ data_queue' = QueuePut(data_queue, next_item).queue
            /\ next_item' = next_item + 1
       ELSE \* an empty line, a JSONDecodeError or a UnicodeDecodeError
            /\ UNCHANGED <<data_queue, next_item>>
    /\ UNCHANGED <<apiVars, workerVars, storeOnlyVars, stats, running, tcp_server, conn, start_pc, worker_pc, batch_data,
                   last_batch_age, current_age, get_wait, stop_pc, join_wait,
                   remaining_data, flushed, accepted_at_stop>>

\* readline returns nothing: the peer closed the connection.
HandleEOF(h) ==
    /\ conn[h] = "open"
    /\ conn' = [conn EXCEPT ![h] = "closed"]
    /\ UNCHANGED <<apiVars, workerVars, storeOnlyVars, stats, running, tcp_server, data_queue, next_item, start_pc, worker_pc,
                   batch_data, last_batch_age, current_age, get_wait, stop_pc, join_wait,
                   remaining_data, flushed, accepted_at_stop>>

\* ---- _data_processing_loop, the worker thread ----

\* while self.running
WorkerLoopTest ==
    /\ worker_pc = "loop"
    /\ worker_pc' = IF running THEN "get" ELSE "exit"
    /\ get_wait' = 0
    /\ UNCHANGED <<apiVars, workerVars, storeOnlyVars, stats, running, tcp_server, data_queue, conn, next_item, start_pc,
                   batch_data, last_batch_age, current_age, stop_pc, join_wait,
                   remaining_data, flushed, accepted_at_stop>>

\* data_queue.get returns an item
WorkerGetItem ==
    /\ worker_pc = "get"
    /\ data_queue # <<>>
    /\ batch_data' = Append(batch_data, Head(data_queue))
    /\ data_queue' = Tail(data_queue)
    /\ stats' = [stats EXCEPT !.total_received = stats.total_received + 1]
    /\ worker_pc' = "check"
    /\ UNCHANGED <<apiVars, workerVars, storeOnlyVars, running, tcp_server, conn, next_item, start_pc, last_batch_age,
                   current_age, get_wait, stop_pc, join_wait, remaining_data, flushed,
                   accepted_at_stop>>

\* data_queue.get raises queue.Empty after its timeout
WorkerGetEmpty ==
    /\ worker_pc = "get"
    /\ data_queue = <<>>
    /\ get_wait >= GetTimeout
    /\ worker_pc' = "check"
    /\ UNCHANGED <<apiVars, workerVars, storeOnlyVars, stats, running, tcp_server, data_queue, conn, next_item, start_pc,
                   batch_data, last_batch_age, current_age, get_wait, stop_pc, join_wait,
                   remaining_data, flushed, accepted_at_stop>>

\* current_time = time.time(); should_process; _process_batch is entered
WorkerCheck ==
    /\ worker_pc = "check"
    /\ current_age' = 0
    /\ IF ShouldProcess(batch_data, last_batch_age)
       THEN /\ worker_pc' = "flush"
            /\ flushed' = PassToFlush(batch_data)
       ELSE /\ worker_pc' = "loop"
            /\ UNCHANGED flushed
    /\ UNCHANGED <<apiVars, workerVars, storeOnlyVars, stats, running, tcp_server, data_queue, conn, next_item, start_pc,
                   batch_data, last_batch_age, get_wait, stop_pc, join_wait,
                   remaining_data, accepted_at_stop>>

\* _process_batch returns; batch_data.clear(); last_batch_time = current_time
WorkerFlushDone ==
    /\ worker_pc = "flush"
    /\ batch_data' = <<>>
    /\ last_batch_age' = current_age
    /\ current_age' = 0
    /\ worker_pc' = "loop"
    /\ UNCHANGED <<apiVars, workerVars, storeOnlyVars, stats, running, tcp_server, data_queue, conn, next_item, start_pc,
                   get_wait, stop_pc, join_wait, remaining_data, flushed,
                   accepted_at_stop>>

\* after the loop: if batch_data: self._process_batch(batch_data)
WorkerExit ==
    /\ worker_pc = "exit"
    /\ IF batch_data # <<>>
       THEN /\ worker_pc' = "final_flush"
            /\ flushed' = PassToFlush(batch_data)
       ELSE /\ worker_pc' = "done"
            /\ UNCHANGED flushed
    /\ UNCHANGED <<apiVars, workerVars, storeOnlyVars, stats, running, tcp_server, data_queue, conn, next_item, start_pc,
                   batch_data, last_batch_age, current_age, get_wait, stop_pc, join_wait,
                   remaining_data, accepted_at_stop>>

WorkerFinalFlushDone ==
    /\ worker_pc = "final_flush"
    /\ worker_pc' = "done"
    /\ UNCHANGED <<apiVars, workerVars, storeOnlyVars, stats, running, tcp_server, data_queue, conn, next_item, start_pc,
                   batch_data, last_batch_age, current_age, get_wait, stop_pc, join_wait,
                   remaining_data, flushed, accepted_at_stop>>

\* ---- stop() ----

\* if not self.running: return; self.running = False
StopBegin ==
    /\ start_pc = "returned"
    /\ stop_pc = "idle"
    /\ IF running
       THEN /\ running' = FALSE
            /\ stop_pc' = "shutdown"
            /\ accepted_at_stop' = SeqToSet(data_queue) \cup SeqToSet(batch_data)
       ELSE /\ stop_pc' = "returned"
            /\ UNCHANGED <<running, accepted_at_stop>>
    /\ UNCHANGED <<apiVars, workerVars, storeOnlyVars, stats, tcp_server, data_queue, conn, next_item, start_pc, worker_pc,
                   batch_data, last_batch_age, current_age, get_wait, join_wait,
                   remaining_data, flushed>>

\* tcp_server.shutdown(); server_close(); then the is_alive() test
StopShutdownServer ==
    /\ stop_pc = "shutdown"
    /\ tcp_server' = "closed"
    /\ stop_pc' = IF worker_pc \in {"unstarted", "done"} THEN "drain" ELSE "join"
    /\ join_wait' = 0
    /\ UNCHANGED <<apiVars, workerVars, storeOnlyVars, stats, running, data_queue, conn, next_item, start_pc, worker_pc,
                   batch_data, last_batch_age, current_age, get_wait, remaining_data,
                   flushed, accepted_at_stop>>

\* join returns because the worker thread has ended
StopJoinDone ==
    /\ stop_pc = "join"
    /\ worker_pc = "done"
    /\ stop_pc' = "drain"
    /\ UNCHANGED <<apiVars, workerVars, storeOnlyVars, stats, running, tcp_server, data_queue, conn, next_item, start_pc,
                   worker_pc, batch_data, last_batch_age, current_age, get_wait, join_wait,
                   remaining_data, flushed, accepted_at_stop>>

\* join returns because its timeout has passed
StopJoinTimeout ==
    /\ stop_pc = "join"
    /\ worker_pc # "done"
    /\ join_wait >= JoinTimeout
    /\ stop_pc' = "drain"
    /\ UNCHANGED <<apiVars, workerVars, storeOnlyVars, stats, running, tcp_server, data_queue, conn, next_item, start_pc,
                   worker_pc, batch_data, last_batch_age, current_age, get_wait, join_wait,
                   remaining_data, flushed, accepted_at_stop>>

\* _process_remaining_data: one get_nowait that returns an item
StopDrainItem ==
    /\ stop_pc = "drain"
    /\ data_queue # <<>>
    /\ remaining_data' = Append(remaining_data, Head(data_queue))
    /\ data_queue' = Tail(data_queue)
    /\ UNCHANGED <<apiVars, workerVars, storeOnlyVars, stats, running, tcp_server, conn, next_item, start_pc, worker_pc,
                   batch_data, last_batch_age, current_age, get_wait, stop_pc, join_wait,
                   flushed, accepted_at_stop>>

\* get_nowait raises queue.Empty; if remaining_data: self._process_batch(...)
StopDrainEnd ==
    /\ stop_pc = "drain"
    /\ data_queue = <<>>
    /\ IF remaining_data # <<>>
       THEN /\ stop_pc' = "flush"
            /\ flushed' = PassToFlush(remaining_data)
       ELSE /\ stop_pc' = "returned"
            /\ UNCHANGED flushed
    /\ UNCHANGED <<apiVars, workerVars, storeOnlyVars, stats, running, tcp_server, data_queue, conn, next_item, start_pc,
                   worker_pc, batch_data, last_batch_age, current_age, get_wait, join_wait,
                   remaining_data, accepted_at_stop>>

StopFlushDone ==
    /\ stop_pc = "flush"
    /\ stop_pc' = "returned"
    /\ UNCHANGED <<apiVars, workerVars, storeOnlyVars, stats, running, tcp_server, data_queue, conn, next_item, start_pc,
                   worker_pc, batch_data, last_batch_age, current_age, get_wait, join_wait,
                   remaining_data, flushed, accepted_at_stop>>

\* ---- time ----

\* One second passes.
Tick ==
    /\ last_batch_age' =
          IF worker_pc \in {"loop", "get", "check", "flush"}
          THEN Min(last_batch_age + 1, batch_interval) ELSE last_batch_age
    /\ current_age' =
          IF worker_pc = "flush" THEN Min(current_age + 1, batch_interval) ELSE current_age
    /\ get_wait' = IF worker_pc = "get" THEN Min(get_wait + 1, GetTimeout) ELSE get_wait
    /\ join_wait' = IF stop_pc = "join" THEN Min(join_wait + 1, JoinTimeout) ELSE join_wait
    /\ <<last_batch_age, current_age, get_wait, join_wait>>' #
          <<last_batch_age, current_age, get_wait, join_wait>>
    /\ UNCHANGED <<apiVars, workerVars, storeOnlyVars, stats, running, tcp_server, data_queue, conn, next_item, start_pc,
                   worker_pc, batch_data, stop_pc, remaining_data, flushed,
                   accepted_at_stop>>

NextIngest ==
    \/ StartThreads
    \/ StartSetRunning
    \/ StartFails
    \/ \E h \in Handlers : Accept(h)
    \/ \E h \in Handlers, kind \in LineKinds : HandleLine(h, kind)
    \/ \E h \in Handlers : HandleEOF(h)
    \/ WorkerLoopTest
    \/ WorkerGetItem
    \/ WorkerGetEmpty
    \/ WorkerCheck
    \/ WorkerFlushDone
    \/ WorkerExit
    \/ WorkerFinalFlushDone
    \/ StopBegin
    \/ StopShutdownServer
    \/ StopJoinDone
    \/ StopJoinTimeout
    \/ StopDrainItem
    \/ StopDrainEnd
    \/ StopFlushDone
    \/ Tick

SpecIngest == Init /\ [][NextIngest]_vars

(***************************************************************************)
(* Claims about the ingestion service threads.                             *)
(***************************************************************************)
WorkerInFlush == worker_pc \in {"flush", "final_flush"}
StopInFlush == stop_pc = "flush"

\* C5: at most one execution of _process_batch is in progress at any time, in
\* every interleaving of the worker, the handlers and the caller of stop().
C5_FlushesNeverConcurrent == ~(WorkerInFlush /\ StopInFlush)

Accepted(i) ==
    \/ i \in SeqToSet(data_queue) \cup SeqToSet(batch_data) \cup SeqToSet(remaining_data)
    \/ flushed[i] > 0
Dropped(i) == i < next_item /\ ~Accepted(i)

\* C7: the queue never holds more than its capacity; a handler that decodes a
\* line while the queue is full drops the item without blocking and keeps its
\* connection open, enqueues again once there is room, and skips a line that
\* cannot be decoded, keeping the connection open.
C7_BoundedQueueDropsNoBlock ==
    /\ [](Len(data_queue) <= QueueMaxsize)
    /\ [](\A h \in Handlers :
             (conn[h] = "open" /\ next_item <= MaxItems) => ENABLED HandleLine(h, "json"))
    /\ [][\A h \in Handlers, kind \in LineKinds :
             HandleLine(h, kind) =>
                /\ conn'[h] = "open"
                /\ IF kind = "json" /\ Len(data_queue) < QueueMaxsize
                   THEN data_queue' = Append(data_queue, next_item)
                   ELSE data_queue' = data_queue]_vars

\* C7 witness: on the only connection there has been, an item was dropped at a
\* full queue and a later item was accepted; the connection is still open.
C7_Witness ==
    /\ conn["h1"] = "open"
    /\ conn["h2"] = "none"
    /\ \E d, e \in Items : d < e /\ Dropped(d) /\ e < next_item /\ Accepted(e)

\* C9: after each take attempt the worker flushes exactly when the batch has
\* batch_size items or is non-empty with batch_interval passed since the last
\* flush; a flush empties the batch and restarts the timer at the time read
\* before it; so the batch never exceeds batch_size and is below it, and
\* younger than batch_interval at the last attempt, whenever a take begins.
C9_FlushPolicy ==
    /\ [](Len(batch_data) <= batch_size)
    /\ [](worker_pc \in {"loop", "get"} => Len(batch_data) < batch_size)
    /\ [][WorkerCheck =>
             ((worker_pc' = "flush") <=>
                 (\/ Len(batch_data) >= batch_size
                  \/ (Len(batch_data) > 0 /\ last_batch_age >= batch_interval)))]_vars
    /\ [][WorkerFlushDone =>
             (batch_data' = <<>> /\ last_batch_age' = current_age)]_vars

\* C9 witness: the service is running and the worker flushes a batch smaller
\* than batch_size because batch_interval has passed.
C9_Witness ==
    /\ running
    /\ worker_pc = "flush"
    /\ Len(batch_data) > 0
    /\ Len(batch_data) < batch_size
    /\ last_batch_age >= batch_interval

SpecWorker == Init /\ [][NextWorker]_vars

(***************************************************************************)
(* Claims about the capture worker.                                        *)
(***************************************************************************)
\* C3: a pending request older than the pairing timeout is never paired: no
\* completed session joins a response to a request stored more than
\* pairing_timeout seconds before it.
C3_NoPairingAfterTimeout ==
    \A k \in 1..Len(completed_sessions) :
        completed_sessions[k].response.timestamp
            - completed_sessions[k].request.timestamp <= pairing_timeout

\* The key of a packet as the claim states it: client ip, client port, server ip.
FlowKey(packet_info) ==
    IF packet_info.packet_type = "request"
    THEN <<packet_info.src_ip, packet_info.src_port, packet_info.dst_ip>>
    ELSE <<packet_info.dst_ip, packet_info.dst_port, packet_info.src_ip>>

OrphanedResponse(packet_info) ==
    [type |-> "orphaned_response", packet_info |-> packet_info]

InSeq(x, q) == \E k \in 1..Len(q) : q[k] = x

\* C4: a request and its response have the same key; a response that finds a
\* pending request under its key removes that entry and appends exactly one
\* completed session made of that request and this response; a response that
\* finds none is recorded as orphaned_response; no stored request is part of two
\* sessions.
C4_PairingByKey ==
    /\ [](\A k \in 1..Len(completed_sessions) :
             LET req == completed_sessions[k].request.packet_info
                 resp == completed_sessions[k].response.packet_info
             IN  /\ req.packet_type = "request" /\ resp.packet_type = "response"
                 /\ req.src_ip = resp.dst_ip /\ req.src_port = resp.dst_port
                 /\ req.dst_ip = resp.src_ip)
    /\ [](\A j, k \in 1..Len(completed_sessions) :
             completed_sessions[j].request.packet_info.id =
                completed_sessions[k].request.packet_info.id => j = k)
    /\ [][\A packet_info \in ResponsePackets(classified + 1) :
             CaptureClassifiedBlock(packet_info) =>
                LET key == FlowKey(packet_info)
                IN  IF pending_requests[key].present
                    THEN /\ Len(completed_sessions') = Len(completed_sessions) + 1
                         /\ completed_sessions'[Len(completed_sessions')].request.packet_info
                               = pending_requests[key].packet_info
                         /\ completed_sessions'[Len(completed_sessions')].response.packet_info
                               = packet_info
                         /\ ~pending_requests'[key].present
                         /\ ~InSeq(OrphanedResponse(packet_info), unmatched_packets')
                    ELSE /\ completed_sessions' = completed_sessions
                         /\ InSeq(OrphanedResponse(packet_info), unmatched_packets')]_vars
    /\ [][\A packet_info \in RequestPackets(classified + 1) :
             CaptureClassifiedBlock(packet_info) =>
                /\ completed_sessions' = completed_sessions
                /\ packet_count' % CleanupEvery # 0 =>
                      /\ pending_requests'[FlowKey(packet_info)].present
                      /\ pending_requests'[FlowKey(packet_info)].packet_info = packet_info]_vars

\* C4 witness: a request was followed by its response within the timeout: one
\* completed session, nothing pending, nothing unmatched.
C4_Witness ==
    /\ Len(completed_sessions) = 1
    /\ completed_sessions[1].response.timestamp
          - completed_sessions[1].request.timestamp <= pairing_timeout
    /\ \A key \in SessionKeys : ~pending_requests[key].present
    /\ unmatched_packets = <<>>
    /\ classified = 2

SpecHistory == Init /\ [][NextHistory]_vars

(***************************************************************************)
(* Claims about the history API.                                           *)
(***************************************************************************)
\* The body's days is an integer in 1..365 (or left out, which means 30).
DaysIsIntegerInRange(d) ==
    d.kind \in {"int", "absent"} /\ d.v >= 1 /\ d.v <= MaxDays

NewerThan(rows, x) == Cardinality({y \in rows : y.last_seen > x.last_seen})
NotOlderThan(rows, x) == Cardinality({y \in rows : y.last_seen >= x.last_seen})

\* C12: a clients request with page >= 1 and page_size in 1..100 returns the
\* rows at positions (page-1)*page_size+1 .. min(page*page_size, N) of a
\* last_seen-descending order of the N matching rows, with total_count N,
\* total_pages ceil(N/page_size), has_next iff page < total_pages and has_prev
\* iff page > 1; any other page or page_size is answered 400 without a query.
C12_Pagination ==
    [][(hist_response'.op = "clients" /\ hist_response'.db_ok) =>
          LET r == hist_response'
              page == r.request.page
              page_size == r.request.page_size
              matching == Matching(hist_rows, r.request.interface_name)
              N == Cardinality(matching)
              first == (page - 1) * page_size + 1
              last == IF page * page_size < N THEN page * page_size ELSE N
              pages == IF N % page_size = 0 THEN N \div page_size
                       ELSE N \div page_size + 1
          IN  IF page >= 1 /\ page_size >= 1 /\ page_size <= MaxPageSize
              THEN /\ r.status = 200
                   /\ Len(r.clients) = (IF last >= first THEN last - first + 1 ELSE 0)
                   /\ \A k \in 1..Len(r.clients) :
                         /\ r.clients[k] \in matching
                         /\ \A j \in 1..Len(r.clients) : r.clients[j] = r.clients[k] => j = k
                         /\ NewerThan(matching, r.clients[k]) < first + k - 1
                         /\ first + k - 1 <= NotOlderThan(matching, r.clients[k])
                   /\ r.total_count = N
                   /\ r.total_pages = pages
                   /\ r.has_next = (page < pages)
                   /\ r.has_prev = (page > 1)
                   /\ hist_rows' = hist_rows
              ELSE r.status = 400 /\ r.queries = 0 /\ r.clients = <<>>]_vars

\* C12 witness: three rows and page_size 2 (for 25 and 10): the last page,
\* page 2, holds the one remaining row, has a previous page and no next page.
C12_Witness ==
    /\ Cardinality(hist_rows) = 3
    /\ hist_response.op = "clients" /\ hist_response.status = 200
    /\ hist_response.total_count = 3
    /\ hist_response.total_pages = 2
    /\ Len(hist_response.clients) = 1
    /\ hist_response.has_prev /\ ~hist_response.has_next

SpecCodec == Init /\ [][NextCodec]_vars

(***************************************************************************)
(* Claims about the config codec.                                          *)
(***************************************************************************)
\* The (destination, gateway) pairs of a list of routes, in order.
RoutePairs(routes) ==
    [k \in 1..Len(routes) |-> <<routes[k].destination, routes[k].gateway>>]

\* The exclusion predicate as the claims state it.
ExcludedAsStated(destination, gateway) ==
    \/ Lower(destination) \in
          {D_word_multicast, Lower(D_word_Broadcast), D_word_local, D_word_unreachable,
           D_word_prohibit, D_word_blackhole, D_word_throw}
    \/ \E prefix \in {P_fe80_64, P_224, P_ff00, P_127, P_loop6, P_169, P_fe80} :
          StartsWith(Lower(destination), prefix)
    \/ /\ gateway # NoneStr
       /\ Lower(gateway) \in {G_none, G_empty, G_zero4, G_zero6, Lower(G_null)}

\* C13: for a record whose declared routes are all non-excluded, parsing the
\* generated text recovers the name, the address lists, the gateways, the DNS
\* list and the route list; an excluded route is neither in the generated text
\* nor in the parse result.
C13_CodecRoundTrip ==
    codec_pc = "parsed" =>
        LET i == codec_interface
            c == codec_parsed.config
        IN  /\ (\A k \in 1..Len(i.systemd_networkd_routes) :
                   ~should_exclude_systemd_route(i.systemd_networkd_routes[k].destination,
                                                 i.systemd_networkd_routes[k].gateway))
                => /\ codec_parsed.interface_name = i.interface_name
                   /\ c.parsed
                   /\ c.ipv4_addresses = i.ipv4_addresses
                   /\ c.ipv6_addresses = i.ipv6_addresses
                   /\ c.ipv4_gateway = i.ipv4_gateway
                   /\ c.ipv6_gateway = i.ipv6_gateway
                   /\ c.dns = i.dns
                   /\ RoutePairs(c.systemd_networkd_routes)
                         = RoutePairs(i.systemd_networkd_routes)
            /\ \A k \in 1..Len(i.systemd_networkd_routes) :
                  LET r == i.systemd_networkd_routes[k]
                  IN  should_exclude_systemd_route(r.destination, r.gateway) =>
                         /\ \A n \in 1..Len(codec_text) :
                               ~(codec_text[n].kind = "key"
                                 /\ codec_text[n].key = "Destination"
                                 /\ codec_text[n].value = r.destination)
                         /\ c.parsed
                         /\ \A n \in 1..Len(c.systemd_networkd_routes) :
                               c.systemd_networkd_routes[n].destination # r.destination

\* C14: the exclusion predicate answers "excluded" exactly for a destination
\* that is one of the listed words or starts with one of the listed prefixes,
\* or for a gateway that is present and one of none, the empty string,
\* 0.0.0.0, ::, null, without regard to case.
C14_ExclusionPredicate ==
    codec_route.judged =>
        (codec_route.excluded
            <=> ExcludedAsStated(codec_route.destination, codec_route.gateway))

SpecNet == Init /\ [][NextNet]_vars

(***************************************************************************)
(* Claims about the network configuration service.                         *)
(***************************************************************************)
\* The routes a successful configureInterface is to leave in the new record:
\* the supplied routes that the exclusion predicate does not match, then the
\* active routes of the interface that are not declared in its present
\* config, are not default routes and are not matched by the predicate.
ExpectedRoutes(files, listdir, active_routes, interface_name, supplied) ==
    LET declared == RoutePairs(get_interface(files, listdir, active_routes,
                                             interface_name).systemd_networkd_routes)
        Declared(route) ==
            \E k \in 1..Len(declared) : declared[k] = <<route.destination, route.gateway>>
    IN  RoutePairs(SelectSeq(supplied,
                   LAMBDA route :
                       ~should_exclude_systemd_route(route.destination, route.gateway)))
        \o RoutePairs(SelectSeq(ActiveRoutesOf(active_routes, interface_name),
                      LAMBDA route :
                          /\ ~Declared(route)
                          /\ route.destination # D_default4
                          /\ route.destination # D_default6
                          /\ ~should_exclude_systemd_route(route.destination,
                                                           route.gateway)))

IsInfix(part, whole) ==
    \E k \in 0..(Len(whole) - Len(part)) : SubSeq(whole, k + 1, k + Len(part)) = part

\* C16: configureInterface for an interface that is not discovered, or with
\* a config that validation reports errors for, is answered 400 with an error
\* that holds every validation error, and leaves the config directory and
\* the backup directory unchanged.
C16_FailureLeavesFiles ==
    [][LET request == net_response'.request
           errors == validate_network_config(
                         [request.config_data EXCEPT
                             !.interface_name = request.interface_name])
       IN  (/\ net_response'.op = "configure"
            /\ request.is_json
            /\ (~InSystem(request.interface_name) \/ errors # <<>>))
           => /\ net_response'.status = 400
              /\ net_response'.error # <<>>
              /\ InSystem(request.interface_name) =>
                    \A k \in 1..Len(errors) : IsInfix(errors[k], net_response'.error)
              /\ net_files' = net_files
              /\ net_listdir' = net_listdir
              /\ net_backups' = net_backups]_vars

\* A request with three validation errors was refused while the config
\* directory held a file.
C16_Witness ==
    /\ net_response.op = "configure"
    /\ net_response.status = 400
    /\ net_response.request.interface_name = IF_eth0
    /\ Len(validate_network_config(net_response.request.config_data)) >= 3
    /\ net_files[NetworkFileName(IF_eth0)].exists

\* C17: writeConfig overwrites an existing file only after a backup copy
\* with the file's prior content has been made; when the backup fails the
\* call fails and the file is unchanged; a file that did not exist is written
\* without a backup.
C17_BackupBeforeOverwrite ==
    [][(net_response'.op = "configure" /\ net_response'.wrote)
        => LET filename == NetworkFileName(net_response'.request.interface_name)
               before == net_files[filename]
           IN  /\ \A f \in Filenames \ {filename} : net_files'[f] = net_files[f]
               /\ (before.exists /\ net_files'[filename] # before)
                     => \E b \in net_backups' :
                           /\ b.filename = filename
                           /\ b.timestamp = net_clock
                           /\ b.text = before.text
               /\ (before.exists /\ ~net_response'.request.backup_ok)
                     => /\ net_response'.status = 400
                        /\ net_files' = net_files
                        /\ net_backups' = net_backups
               /\ ~before.exists => net_backups' = net_backups]_vars

\* An existing file was overwritten with a new text, and the backup
\* directory holds its prior content.
C17_Witness ==
    /\ net_response.op = "configure"
    /\ net_response.status = 201
    /\ net_files[NetworkFileName(IF_eth0)].exists
    /\ net_files[NetworkFileName(IF_eth0)].text # T_eth0
    /\ \E b \in net_backups : b.filename = NetworkFileName(IF_eth0) /\ b.text = T_eth0

\* The entries of listInterfaces for a name.
EntriesOf(records, interface_name) ==
    {k \in 1..Len(records) : records[k].interface_name = interface_name}

\* C18: in one state of sysfs, the config directory and the kernel routes,
\* getInterface(name) returns the record that listInterfaces holds for the
\* name, and returns absent exactly when listInterfaces has no entry for it;
\* a config file of an interface that is not discovered surfaces in neither;
\* listInterfaces is sorted by name.
C18_GetAgreesWithList ==
    [][net_response'.op = "get"
        => LET records == get_all_interfaces(net_files, net_listdir, net_routes)
               interface_name == net_response'.request.interface_name
               entries == EntriesOf(records, interface_name)
           IN  /\ (net_response'.record = NoRecord) <=> (entries = {})
               /\ \A k \in entries : records[k] = net_response'.record
               /\ ~InSystem(interface_name) => net_response'.status = 404
               /\ \A k \in 1..(Len(records) - 1) :
                     ~StrLess(records[k + 1].interface_name, records[k].interface_name)]_vars

SpecMonitor == Init /\ [][NextMonitor]_vars

(***************************************************************************)
(* Claims about the NTP monitoring process manager and the health check.   *)
(***************************************************************************)
\* The PID files of the interfaces whose recorded process exists.
LivePidFiles(pid_files, alive) ==
    {iface \in PmIfaces : is_monitoring(pid_files, alive, iface)}

\* C19: a start of an interface that is already monitored fails and leaves
\* the PID file and the running worker as they were; a stop of an interface
\* that is not monitored fails and neither creates nor removes a file; after
\* a successful stop the interface has no PID file; cleanupStale removes
\* exactly the PID files of dead processes, keeps those of live ones, and
\* returns the number it removed.
C19_ProcessIdempotence ==
    [][pm_response' # NoPmResponse =>
        LET iface == pm_response'.interface
        IN  /\ (pm_response'.op = "start" /\ is_monitoring(pm_pid_files, pm_alive, iface)) =>
                 /\ ~pm_response'.success
                 /\ pm_response'.status = 400
                 /\ pm_pid_files' = pm_pid_files
                 /\ pm_log_files' = pm_log_files
                 /\ pm_alive' = pm_alive
            /\ (pm_response'.op = "stop" /\ ~is_monitoring(pm_pid_files, pm_alive, iface)) =>
                 /\ ~pm_response'.success
                 /\ pm_response'.status = 400
                 /\ pm_pid_files' = pm_pid_files
                 /\ pm_log_files' = pm_log_files
            /\ (pm_response'.op = "stop" /\ pm_response'.success) =>
                 pm_pid_files'[iface] = NoPid
            /\ pm_response'.op = "cleanup" =>
                 /\ \A i \in StalePidFiles(pm_pid_files, pm_alive) : pm_pid_files'[i] = NoPid
                 /\ \A i \in PmIfaces \ StalePidFiles(pm_pid_files, pm_alive) :
                       pm_pid_files'[i] = pm_pid_files[i]
                 /\ pm_response'.cleaned_count =
                       Cardinality(StalePidFiles(pm_pid_files, pm_alive))
                 /\ pm_response'.status = 200]_vars

\* cleanupStale has answered after removing the PID file of a dead process
\* while the PID file of a live one stays.
C19_Witness ==
    /\ pm_response.op = "cleanup"
    /\ pm_response.cleaned_count = 1
    /\ LivePidFiles(pm_pid_files, pm_alive) # {}
    /\ \E iface \in PmIfaces : pm_pid_files[iface] = NoPid /\ iface \in pm_log_files

\* C20: GET /api/health answers 200 with status 'degraded' exactly when a
\* subsystem is reported degraded, stopped or not started, and the message
\* names exactly those subsystems; ingestion reporting running=false gives
\* 'degraded' naming 'ntp_ingestion'; with none it answers 'healthy'; it
\* answers 503 only when the handler itself fails, never because a probe
\* of one subsystem failed.
C20_CompositeHealth ==
    health_response # NoHealthResponse =>
        LET r == health_response
            failing == {k \in ServiceSet : r.services[k] \in {"degraded", "stopped", "not_started"}}
            named == {r.message.names[n] : n \in 1..Len(r.message.names)}
        IN  /\ r.status_code \in {200, 503}
            /\ r.status_code = 503 <=> r.request.handler_raises
            /\ r.status_code = 200 =>
                 /\ r.status = "degraded" <=> failing # {}
                 /\ r.status = "healthy" <=> failing = {}
                 /\ named = failing
                 /\ Len(r.message.names) = Cardinality(failing)
                 /\ r.request.monitor_probe = "raises" => "ntp_monitor" \in named
                 /\ r.request.database = "raises" => "ntp_history" \in named
                 /\ r.request.ingestion = "raises" => "ntp_ingestion" \in named
                 /\ r.request.ingestion = "stopped" =>
                       r.status = "degraded" /\ "ntp_ingestion" \in named

\* The health check has answered 200 'degraded' for an ingestion service that
\* reports running=false while the monitor probe failed as well.
C20_Witness ==
    /\ health_response.status_code = 200
    /\ health_response.status = "degraded"
    /\ health_response.request.ingestion = "stopped"
    /\ health_response.request.monitor_probe = "raises"
    /\ health_response.message.names = <<"ntp_monitor", "ntp_ingestion">>

\* C21: every (destination, gateway) pair the config-route predicate
\* should_exclude_systemd_route excludes is excluded by the active-route
\* predicate should_exclude_route as well, so neither get_active_routes()
\* nor the active_system_routes of a returned record holds a route that the
\* config-route predicate would exclude.
C21_ActiveRoutesNeverExcluded ==
    /\ \A n \in DOMAIN net_routes : \A k \in 1..Len(net_routes[n]) :
          ~should_exclude_systemd_route(net_routes[n][k].destination,
                                        net_routes[n][k].gateway)
    /\ \A k \in 1..Len(net_response.record.active_system_routes) :
          LET route == net_response.record.active_system_routes[k]
          IN  should_exclude_systemd_route(route.destination, route.gateway)
                 => should_exclude_route(route.destination, route.gateway, route.dev)

\* C24: whenever start() has returned True and stop() has not been called,
\* the batch worker thread is executing its loop, in every interleaving of
\* start() with the thread it started.
C24_WorkerLoopsWhileStarted ==
    (start_pc = "returned" /\ running /\ stop_pc = "idle")
        => worker_pc \in {"loop", "get", "check", "flush"}

\* C25: in every state total_inserted + total_updated <= total_processed <=
\* total_received, and no counter of the service ever decreases, during and
\* after stop() as well.
C25_CountersOrdered ==
    /\ stats.total_inserted + stats.total_updated <= stats.total_processed
    /\ stats.total_processed <= stats.total_received

\* C26: every row has first_seen_timestamp <= last_seen_timestamp, whatever
\* the order of the session timestamps of the ingested sessions.
C26_FirstSeenBeforeLastSeen ==
    \A i \in 1..Len(table) :
        table[i].first_seen_timestamp <= table[i].last_seen_timestamp

\* The entries of unmatched_packets of one type.
UnmatchedOfType(type) ==
    Cardinality({k \in 1..Len(unmatched_packets) : unmatched_packets[k].type = type})

\* The classified blocks that were requests: every classified block is a
\* request or a response, and a response ends as a completed session or as
\* an orphaned_response entry.
RequestsSeen == classified - Len(completed_sessions) - UnmatchedOfType("orphaned_response")

\* C27: no classified request is lost: the requests seen are the pending
\* requests, the completed sessions and the orphaned_request entries
\* together, also when a second request arrives under the key of a pending
\* one; the session ids are 1..n and session_count is the number of
\* completed sessions.
C27_NoRequestLost ==
    /\ RequestsSeen = Cardinality({key \in SessionKeys : pending_requests[key].present})
                         + Len(completed_sessions) + UnmatchedOfType("orphaned_request")
    /\ session_count = Len(completed_sessions)
    /\ \A k \in 1..Len(completed_sessions) : completed_sessions[k].session_id = k

\* The session ids of C27 alone.
C27_SessionIds ==
    /\ session_count = Len(completed_sessions)
    /\ \A k \in 1..Len(completed_sessions) : completed_sessions[k].session_id = k

\* The text a configureInterface request would write in a given state of the
\* config directory and of the kernel routes.
TextOfRequest(files, listdir, active_routes, interface_name, config_data) ==
    generate_network_config(
        NewRecord(get_interface(files, listdir, active_routes, interface_name),
                  interface_name,
                  [config_data EXCEPT !.interface_name = interface_name]))

\* C28: configureInterface is idempotent: right after a successful call, with
\* the kernel routes unchanged, the same request would write the text that
\* the call has just written, so a kernel route the call carried forward
\* stays in the file.
C28_ConfigureIdempotent ==
    [][(net_response'.op = "configure" /\ net_response'.status = 201)
        => TextOfRequest(net_files', net_listdir', net_routes',
                         net_response'.request.interface_name,
                         net_response'.request.config_data)
              = net_files'[NetworkFileName(net_response'.request.interface_name)].text]_vars

\* C29: after a successful configureInterface, parsing the file it wrote
\* gives the addresses, gateways, DNS entries and (destination, gateway)
\* routes of the record it returned, and the record, hence the file, names
\* no route twice and no route without a gateway; also when a kernel route
\* without gateway was carried forward or a supplied route is active too.
C29_WrittenFileIsRecord ==
    [][(net_response'.op = "configure" /\ net_response'.status = 201)
        => LET record == net_response'.record
               parsed == ParseFile(net_files',
                                   NetworkFileName(net_response'.request.interface_name))
               pairs == RoutePairs(record.systemd_networkd_routes)
           IN  /\ parsed.interface_name = record.interface_name
               /\ parsed.config.parsed
               /\ parsed.config.ipv4_addresses = record.ipv4_addresses
               /\ parsed.config.ipv6_addresses = record.ipv6_addresses
               /\ parsed.config.ipv4_gateway = record.ipv4_gateway
               /\ parsed.config.ipv6_gateway = record.ipv6_gateway
               /\ parsed.config.dns = record.dns
               /\ RoutePairs(parsed.config.systemd_networkd_routes) = pairs
               /\ \A j, k \in 1..Len(pairs) : pairs[j] = pairs[k] => j = k
               /\ \A k \in 1..Len(pairs) : Truthy(pairs[k][2])]_vars

\* C29 where the record holds neither a route without gateway nor a route
\* twice: the file then parses back to the record.
C29_WithoutGatewaylessOrDouble ==
    [][(/\ net_response'.op = "configure" /\ net_response'.status = 201
        /\ LET pairs == RoutePairs(net_response'.record.systemd_networkd_routes)
           IN  /\ \A j, k \in 1..Len(pairs) : pairs[j] = pairs[k] => j = k
               /\ \A k \in 1..Len(pairs) : Truthy(pairs[k][2]))
        => LET record == net_response'.record
               parsed == ParseFile(net_files',
                                   NetworkFileName(net_response'.request.interface_name))
           IN  /\ parsed.interface_name = record.interface_name
               /\ parsed.config.ipv4_addresses = record.ipv4_addresses
               /\ parsed.config.ipv6_addresses = record.ipv6_addresses
               /\ parsed.config.ipv4_gateway = record.ipv4_gateway
               /\ parsed.config.ipv6_gateway = record.ipv6_gateway
               /\ parsed.config.dns = record.dns
               /\ RoutePairs(parsed.config.systemd_networkd_routes)
                     = RoutePairs(record.systemd_networkd_routes)]_vars

(***************************************************************************)
(* Claims about the standalone UDP monitor.                                *)
(***************************************************************************)
SpecUdp == Init /\ [][NextUdp]_vars
\* The threads keep running while they can; signals and datagrams need not come.
SpecUdpFair == SpecUdp /\ WF_vars(UdpMainStep) /\ WF_vars(UdpWorkerStep)

\* The records appended to pending_records so far.
UdpAppended ==
    {record \in UdpRecords :
        CountIn(udp_pending_records, record) + Len(udp_copied[record]) > 0}
\* No record is in two places: the pending list, the copy of one flush.
C22_AtMostOnce ==
    \A record \in UdpRecords :
        /\ CountIn(udp_pending_records, record) + Len(udp_copied[record]) <= 1
        /\ CountIn(udp_local["main"].records, record)
              + CountIn(udp_local["worker"].records, record) <= Len(udp_copied[record])
        /\ udp_handed[record] <= Len(udp_copied[record])
        /\ udp_db.ntp_records[record] <= udp_handed[record]
\* With at most one signal delivered, a record that no flush holds any more
\* and that is not pending was passed to _write_to_database.
C22_Handed ==
    \A record \in UdpAppended :
        (/\ udp_signals <= 1
         /\ CountIn(udp_pending_records, record) = 0
         /\ \A thread \in UdpThreads : CountIn(udp_local[thread].records, record) = 0)
        => udp_handed[record] = 1
\* A flush that takes copies takes every pending record and leaves none.
C22_Drain ==
    (udp_copied' # udp_copied)
    => /\ udp_pending_records' = <<>>
       /\ \A record \in UdpRecords :
             CountIn(udp_pending_records, record) = 1
             => /\ Len(udp_copied'[record]) = 1
                /\ \E thread \in UdpThreads :
                      CountIn(udp_local'[thread].records, record) = 1
NtpRowsOf(db, client_ip) ==
    LET ofClient == {record \in 1..Len(udp_received) : udp_received[record] = client_ip}
        RECURSIVE SumRows(_)
        SumRows(S) == IF S = {} THEN 0
                  ELSE LET record == CHOOSE r \in S : TRUE
                       IN  db.ntp_records[record] + SumRows(S \ {record})
    IN  SumRows(ofClient)
\* C23: a termination signal delivered at any point of the receive loop,
\* also while the loop holds cache_lock, leads to the stop flag cleared, the
\* final flush done and the process exited: the handler does not wait
\* forever.
C23_SignalLeadsToExit ==
    (udp_main.phase = "handler" /\ udp_base = "loop")
        ~> (~udp_running /\ udp_main.phase = "exited")
\* The handler waits for cache_lock while the frame it interrupted, on the
\* same thread, holds it.
HandlerWaitsForOwnLock ==
    /\ udp_main = [phase |-> "handler", step |-> "flush_wait"]
    /\ udp_lock = "main"
\* C23 for a last signal that finds cache_lock not held by the main thread.
C23_OutsideLockedSections ==
    (udp_main.phase = "handler" /\ udp_lock # "main" /\ udp_signals = MaxSignals)
        ~> (~udp_running /\ udp_main.phase = "exited")

\* C30: when no write has failed, the write of a flush leaves, for every
\* client, the request_count of client_stats equal to the number of its
\* rows in ntp_records.
C30_CountEqualsRows ==
    [][(udp_db' # udp_db /\ ~udp_write_failed')
        => \A client_ip \in UdpClients :
              udp_db'.client_stats[client_ip] = NtpRowsOf(udp_db', client_ip)]_vars

====
